---- MODULE Spec2Model ----
(***************************************************************************)
(* Transfer orchestration of models/worker.py (EnhancedUploadWorker): one  *)
(* upload session, from run() to the session-completion event, in the      *)
(* sequential dispatch (max_threads = 1) and in the pool dispatch          *)
(* (max_threads > 1).  The adapter (connect, upload_file), the local file  *)
(* system and the caller of cancel()/pause()/resume() are the environment: *)
(* their results are nondeterministic choices.                             *)
(***************************************************************************)
EXTENDS Integers, Sequences, FiniteSets, TLC

\* ------------------------------------------------------------------ bounds
MaxTasks == 3
MaxRetriesBound == 2
MaxThreadsBound == 2
\* Retries of a session that runs on the pool (max_threads > 1).
MaxPoolRetries == 1
\* Files that may be missing when total_bytes is summed, and files that may have
\* disappeared when their task is dispatched.
MaxMissing == 1

\* Roots of a selection handed to collect_files.
MaxRoots == 2

\* ------------------------------------------------------- environment inputs
\* uploader_config['protocol']: one protocol create_uploader knows, one it does not.
ProtocolChoices == {"SFTP", "GOPHER"}
\* The protocols create_uploader has a branch for.
SupportedProtocols == {"FTP", "FTPS", "SFTP", "HTTP/HTTPS", "S3"}
\* uploader_config: its protocol, and whether the keys the protocol's branch reads with
\* [] (host, port, ...; url; access_key, ...) are all there.
ConfigChoices == [protocol : ProtocolChoices, complete : BOOLEAN]
\* The percentages an adapter reports to progress_callback, any number of times a call.
Percents == {50}
\* The selections: n files of 100, 200, ... bytes, and one empty file.
FileLists == {[i \in 1 .. n |-> 100 * i] : n \in 0 .. MaxTasks} \cup {<<0>>}

VARIABLES
    \* constructor arguments (worker.py 24-41)
    uploader_config, files, max_retries, max_threads,
    \* session fields
    should_cancel, is_paused, total_bytes, uploaded_bytes,
    \* locals of upload_files_sequential / upload_files_threaded
    successful_uploads, failed_uploads,
    \* position of the session thread and of its sequential loop
    pc, idx, attempt,
    \* the pool: each future's state, the futures as_completed has yielded, each worker
    futures, yielded, workers,
    \* signals emitted
    all_completed, overall_progress, file_completed,
    \* history: what happened, kept for the properties
    connect_result, collected, scanned, calls, got_ok, tally, exhausted,
    calls_after_cancel, fs_stable,
    \* history: connect() and disconnect() calls on each adapter (0: the session's,
    \* i: the one the pool worker of task i creates), whether summing total_bytes
    \* raised, submits and worker invocations of each task, tasks whose worker raised
    connect_calls, disconnect_calls, size_error, submitted, runs, raised,
    \* collect_files: the constructor arguments it reads (self.files is selection here),
    \* its locals, its position, and the log lines it emits
    selection, remote_dir, ignore_patterns, include_hidden_files,
    upload_directory_contents_only, compiled_patterns, all_files, root_idx, cpc, log,
    \* history: tasks whose file had disappeared when they were dispatched, successful
    \* tasks whose size could not be read at completion, the time.sleep calls of the
    \* sequential loop's current task, whether a thread made a backend call on an adapter
    \* another thread created; and each adapter's own cancel flag (base.py 10)
    vanished, unsized, delays, foreign_call, uploader_cancel,
    \* one adapter's connection (protocols/base.py 8-13): its class, its fields, the bytes
    \* its upload_file calls have sent, the uploaded counter of the call in progress, the
    \* chunk or progress steps so far, and time.time()
    adapter, bandwidth_limit, last_byte_time, bytes_transferred, sent, uploaded, chunks,
    clock,
    \* history: the bytes passed to _throttle_bandwidth and the time it has slept
    charged, slept,
    \* the main window's speed display (ui.py 1091, 1343-1353), and history: every
    \* sample update_speed was called with
    speed_history, avg_speed, samples

config_vars == <<uploader_config, files, max_retries, max_threads>>
flag_vars == <<should_cancel, is_paused>>
seq_vars == <<idx, attempt, calls, got_ok>>
pool_vars == <<futures, yielded, workers>>
count_vars == <<successful_uploads, failed_uploads>>
adapter_vars == <<connect_calls, disconnect_calls>>
dispatch_vars == <<size_error, submitted, runs, raised>>
audit_vars == <<vanished, unsized, delays, foreign_call, uploader_cancel>>
collect_args == <<selection, remote_dir, ignore_patterns, include_hidden_files,
                  upload_directory_contents_only>>
collect_vars == <<collect_args, compiled_patterns, all_files, root_idx, cpc, log>>
throttle_vars == <<adapter, bandwidth_limit, last_byte_time, bytes_transferred, sent,
                   uploaded, chunks, clock, charged, slept>>
speed_vars == <<speed_history, avg_speed, samples>>
side_vars == <<collect_vars, throttle_vars, speed_vars>>
session_vars == <<uploader_config, files, max_retries, max_threads, should_cancel,
                  is_paused, total_bytes, uploaded_bytes, successful_uploads,
                  failed_uploads, pc, idx, attempt, futures, yielded, workers,
                  all_completed, overall_progress, file_completed, connect_result,
                  collected, scanned, calls, got_ok, tally, exhausted,
                  calls_after_cancel, fs_stable, connect_calls, disconnect_calls,
                  size_error, submitted, runs, raised, vanished, unsized, delays,
                  foreign_call, uploader_cancel>>
vars == <<uploader_config, files, max_retries, max_threads, should_cancel, is_paused,
          total_bytes, uploaded_bytes, successful_uploads, failed_uploads, pc, idx,
          attempt, futures, yielded, workers, all_completed,
          overall_progress, file_completed, connect_result, collected, scanned,
          calls, got_ok, tally, exhausted, calls_after_cancel, fs_stable,
          connect_calls, disconnect_calls, size_error, submitted, runs, raised,
          selection, remote_dir, ignore_patterns, include_hidden_files,
          upload_directory_contents_only, compiled_patterns, all_files, root_idx, cpc,
          log, vanished, unsized, delays, foreign_call, uploader_cancel, adapter,
          bandwidth_limit, last_byte_time, bytes_transferred, sent, uploaded, chunks,
          clock, charged, slept, speed_history, avg_speed, samples>>

\* ----------------------------------------------------------------- helpers
Tasks == 1 .. Len(files)
Pool == 1 .. max_threads
\* Thread 0 is the session thread (QThread.run); 1..max_threads are the pool's threads.
Threads == 0 .. MaxThreadsBound
\* Adapter 0 is the one run() creates; adapter i is the one upload_worker creates for task i.
Adapters == 0 .. Len(files)

RECURSIVE SumSizes(_)
SumSizes(S) ==
    IF S = {} THEN 0
    ELSE LET i == CHOOSE x \in S : TRUE IN files[i] + SumSizes(S \ {i})

\* A pool thread between tasks. calls counts the upload_file calls of its current task,
\* got_ok tells whether one of them returned ok, delays lists
\* the time.sleep calls made between them.
IdleWorker ==
    [pc |-> "idle", cur |-> 0, attempt |-> 0, success |-> FALSE, calls |-> 0,
     got_ok |-> FALSE, delays |-> <<>>]

\* Mutant: a missing key is not noticed (the except clause of lines 134-136 is gone).
CreateUploader_NoKeyCheck(config) == config.protocol \in SupportedProtocols
\* create_uploader: an adapter for a known protocol whose keys are there; None for an
\* unknown protocol (line 132) and for a missing key (KeyError, lines 134-136).
CreateUploader(config) == config.protocol \in SupportedProtocols /\ config.complete

\* Mutant: the factor 100 is missing.
OverallPercent_Fraction(hundredths, total) ==
    IF total > 0 THEN [num |-> hundredths \div 100, den |-> total] ELSE [num |-> 0, den |-> 1]
\* overall_percent = bytes / total_bytes * 100 if total_bytes > 0 else 0, kept as the
\* exact fraction num / den; hundredths is bytes * 100.
OverallPercent(hundredths, total) ==
    IF total > 0 THEN [num |-> hundredths, den |-> total] ELSE [num |-> 0, den |-> 1]

\* overall_progress_signal.emit(int(bytes), int(total_bytes), overall_percent)
OverallEvent(hundredths, total) ==
    [uploaded |-> hundredths \div 100, total |-> total,
     percent |-> OverallPercent(hundredths, total)]

\* Mutant: the failure count is tested before the cancel flag.
EmitCompletionSignal_FailedFirst(cancel, successful, failed, total) ==
    IF failed = 0
    THEN [success |-> TRUE, message |-> <<"All", total, "files uploaded successfully">>,
          successful |-> successful, failed |-> failed]
    ELSE IF cancel
    THEN [success |-> FALSE, message |-> <<"Upload canceled">>,
          successful |-> successful, failed |-> failed]
    ELSE [success |-> FALSE, message |-> <<"Upload completed with", failed, "errors">>,
          successful |-> successful, failed |-> failed]
\* Mutant: the two counts are passed in the wrong order.
EmitCompletionSignal_Swapped(cancel, successful, failed, total) ==
    IF cancel
    THEN [success |-> FALSE, message |-> <<"Upload canceled">>,
          successful |-> failed, failed |-> successful]
    ELSE IF failed = 0
    THEN [success |-> TRUE, message |-> <<"All", total, "files uploaded successfully">>,
          successful |-> failed, failed |-> successful]
    ELSE [success |-> FALSE, message |-> <<"Upload completed with", failed, "errors">>,
          successful |-> failed, failed |-> successful]
\* emit_completion_signal(successful, failed, total): the event's arguments.
EmitCompletionSignal(cancel, successful, failed, total) ==
    IF cancel
    THEN [success |-> FALSE, message |-> <<"Upload canceled">>,
          successful |-> successful, failed |-> failed]
    ELSE IF failed = 0
    THEN [success |-> TRUE, message |-> <<"All", total, "files uploaded successfully">>,
          successful |-> successful, failed |-> failed]
    ELSE [success |-> FALSE, message |-> <<"Upload completed with", failed, "errors">>,
          successful |-> successful, failed |-> failed]

\* Mutant: one attempt too many (range(self.max_retries + 2)).
HasNextAttempt_OffByOne(a) == a <= max_retries
\* for attempt in range(self.max_retries + 1): whether another attempt follows.
HasNextAttempt(a) == a < max_retries

\* Mutant: the flag is read before the first attempt only, not before a retry.
AttemptCancelled_FirstOnly(a) == a = 0 /\ should_cancel
\* if self.should_cancel: break, at the head of attempt a.
AttemptCancelled(a) == should_cancel

\* Mutant: the delay grows with the attempt number (a backoff).
RetryDelay_Backoff(a) == 2 * (a + 1)
\* time.sleep(2) of lines 315 and 390: the seconds slept after the failed attempt a.
RetryDelay(a) == 2

\* Mutant: the loop of line 261 is gone, the pause flag is not read.
PauseWait_NotRead == TRUE
\* Mutant: the wait of lines 261-262 does not read should_cancel.
PauseWait_IgnoresCancel == ~is_paused
\* while self.is_paused and not self.should_cancel: time.sleep(0.1) (lines 261-262):
\* the condition under which the wait is over.
PauseWait == ~is_paused \/ should_cancel

\* The adapter run() creates (uploader, line 48) and hands to the dispatch.
SessionAdapter == 0
\* Mutant: the worker uploads with the session's adapter, which run() handed over.
WorkerAdapter_Session(w) == SessionAdapter
\* The adapter the worker invocation of pool thread w uses: thread_uploader (line 194),
\* the one it created for its task.
WorkerAdapter(w) == workers[w].cur
\* The thread that created adapter a: the session thread for the session's adapter,
\* the pool thread that holds the task for a worker's adapter.
Creator(a) ==
    IF a = SessionAdapter THEN 0
    ELSE CHOOSE w \in 1 .. MaxThreadsBound : workers[w].cur = a

\* The message connect() returns with a non-ok result.
ConnectMessage == <<"Connection failed">>

\* ------------------------------------------------------------------- Init
\* The session's fields after __init__, and the history empty.
InitSession ==
    /\ uploader_config \in ConfigChoices
    /\ files \in FileLists
    /\ max_retries \in 0 .. MaxRetriesBound
    /\ max_threads \in 1 .. MaxThreadsBound
    /\ max_threads > 1 => max_retries <= MaxPoolRetries
    /\ should_cancel = FALSE
    /\ is_paused = FALSE
    /\ total_bytes = 0
    /\ uploaded_bytes = 0
    /\ successful_uploads = 0
    /\ failed_uploads = 0
    /\ pc = "start"
    /\ idx = 1
    /\ attempt = 0
    /\ futures = [i \in Tasks |-> "unsubmitted"]
    /\ yielded = {}
    /\ workers = [w \in 1 .. MaxThreadsBound |-> IdleWorker]
    /\ all_completed = <<>>
    /\ overall_progress = <<>>
    /\ file_completed = [i \in Tasks |-> <<>>]
    /\ connect_result = "none"
    /\ collected = FALSE
    /\ scanned = {}
    /\ calls = 0
    /\ got_ok = FALSE
    /\ tally = [i \in Tasks |-> "none"]
    /\ exhausted = {}
    /\ calls_after_cancel = [t \in Threads |-> 0]
    /\ fs_stable = TRUE
    /\ connect_calls = [a \in Adapters |-> 0]
    /\ disconnect_calls = [a \in Adapters |-> 0]
    /\ size_error = FALSE
    /\ submitted = [i \in Tasks |-> 0]
    /\ runs = [i \in Tasks |-> 0]
    /\ raised = {}
    /\ vanished = {}
    /\ unsized = {}
    /\ delays = <<>>
    /\ foreign_call = FALSE
    /\ uploader_cancel = [a \in Adapters |-> FALSE]

\* collect_files not called: the session model takes its result, the task list, as
\* the input files.
CollectIdle ==
    /\ selection = <<>>
    /\ remote_dir = <<>>
    /\ ignore_patterns = <<>>
    /\ include_hidden_files = FALSE
    /\ upload_directory_contents_only = FALSE
    /\ compiled_patterns = <<>>
    /\ all_files = <<>>
    /\ root_idx = 1
    /\ cpc = "idle"
    /\ log = <<>>

\* No adapter is being paced and no speed sample has arrived.
ThrottleIdle ==
    /\ adapter = "none"
    /\ bandwidth_limit = 0
    /\ last_byte_time = 0
    /\ bytes_transferred = 0
    /\ sent = 0
    /\ uploaded = 0
    /\ chunks = 0
    /\ clock = 0
    /\ charged = 0
    /\ slept = 0
SpeedIdle ==
    /\ speed_history = <<>>
    /\ avg_speed = [sum |-> 0, count |-> 1]
    /\ samples = <<>>

Init == InitSession /\ CollectIdle /\ ThrottleIdle /\ SpeedIdle

\* ---------------------------------------------------------- session thread
\* Mutant: the return after a failed connect (line 59) is missing.
RunStart_NoReturn ==
    /\ pc = "start"
    /\ \E ok \in BOOLEAN :
          IF ~CreateUploader(uploader_config)
          THEN /\ all_completed' = Append(all_completed,
                      [success |-> FALSE, message |-> <<"Failed to create uploader">>,
                       successful |-> 0, failed |-> 0])
               /\ pc' = "done"
               /\ UNCHANGED <<connect_result, adapter_vars>>
          ELSE /\ all_completed' = IF ok THEN all_completed
                                   ELSE Append(all_completed,
                                          [success |-> FALSE, message |-> ConnectMessage,
                                           successful |-> 0, failed |-> 0])
               /\ pc' = "collect"
               /\ connect_result' = IF ok THEN "ok" ELSE "failed"
               /\ connect_calls' = [connect_calls EXCEPT ![0] = @ + 1]
               /\ UNCHANGED disconnect_calls
    /\ UNCHANGED <<config_vars, flag_vars, total_bytes, uploaded_bytes, count_vars,
                   seq_vars, pool_vars, overall_progress, file_completed, collected,
                   scanned, tally, exhausted, calls_after_cancel, fs_stable,
                   dispatch_vars>>
    /\ UNCHANGED side_vars
    /\ UNCHANGED audit_vars

\* run(), lines 43-61 and 78-79: create the adapter and connect. A failed create
\* returns before the try block; a failed connect emits and leaves through finally,
\* which disconnects.
RunStart ==
    /\ pc = "start"
    /\ \E ok \in BOOLEAN :
          IF ~CreateUploader(uploader_config)
          THEN /\ all_completed' = Append(all_completed,
                      [success |-> FALSE, message |-> <<"Failed to create uploader">>,
                       successful |-> 0, failed |-> 0])
               /\ pc' = "done"
               /\ UNCHANGED <<connect_result, adapter_vars>>
          ELSE IF ~ok
          THEN /\ all_completed' = Append(all_completed,
                      [success |-> FALSE, message |-> ConnectMessage,
                       successful |-> 0, failed |-> 0])
               /\ pc' = "done"
               /\ connect_result' = "failed"
               /\ connect_calls' = [connect_calls EXCEPT ![0] = @ + 1]
               /\ disconnect_calls' = [disconnect_calls EXCEPT ![0] = @ + 1]
          ELSE /\ pc' = "collect"
               /\ connect_result' = "ok"
               /\ connect_calls' = [connect_calls EXCEPT ![0] = @ + 1]
               /\ UNCHANGED <<all_completed, disconnect_calls>>
    /\ UNCHANGED <<config_vars, flag_vars, total_bytes, uploaded_bytes, count_vars,
                   seq_vars, pool_vars, overall_progress, file_completed, collected,
                   scanned, tally, exhausted, calls_after_cancel, fs_stable,
                   dispatch_vars>>
    /\ UNCHANGED side_vars
    /\ UNCHANGED audit_vars

\* Mutant: the sum is taken over every collected task, the os.path.exists filter is gone.
ScanTotal_NoExistsFilter(present, oserror) == IF oserror THEN 0 ELSE SumSizes(Tasks)
\* Lines 65-69: the sum of os.path.getsize over the tasks whose file exists (present);
\* an OSError raised by getsize (oserror) makes it 0.
ScanTotal(present, oserror) == IF oserror THEN 0 ELSE SumSizes(present)

\* run(), lines 63-77: collect_files, then total_bytes over the files that exist now
\* (present). A file that os.path.exists found and whose getsize then raises (oserror)
\* is one of the others: the sum is abandoned and total_bytes is 0. Then the dispatch
\* is chosen; the pool dispatch submits every task (lines 217-223).
CollectAndDispatch ==
    /\ pc = "collect"
    /\ collected' = TRUE
    /\ \E present \in SUBSET Tasks, oserror \in BOOLEAN :
          /\ Cardinality(Tasks \ present) <= MaxMissing
          /\ oserror => present # Tasks
          /\ scanned' = present
          /\ size_error' = oserror
          /\ total_bytes' = ScanTotal(present, oserror)
          /\ fs_stable' = (fs_stable /\ present = Tasks)
    /\ IF max_threads > 1
       THEN /\ pc' = "as_completed"
            /\ futures' = [i \in Tasks |-> "pending"]
            /\ submitted' = [i \in Tasks |-> submitted[i] + 1]
       ELSE /\ pc' = "seq_loop"
            /\ UNCHANGED <<futures, submitted>>
    /\ UNCHANGED <<connect_result, exhausted, config_vars, flag_vars, uploaded_bytes, count_vars, seq_vars,
                   yielded, workers, all_completed, overall_progress, file_completed,
                   tally, calls_after_cancel, adapter_vars, runs, raised>>
    /\ UNCHANGED side_vars
    /\ UNCHANGED audit_vars

\* ------------------------------------------------------ sequential dispatch
\* Mutant: the loop also stops at the first failed task.
SeqLoop_StopOnFailure ==
    /\ pc = "seq_loop"
    /\ IF idx > Len(files) \/ should_cancel \/ failed_uploads > 0
       THEN /\ all_completed' = Append(all_completed,
                   EmitCompletionSignal(should_cancel, successful_uploads,
                                        failed_uploads, Len(files)))
            /\ pc' = "done"
            /\ disconnect_calls' = [disconnect_calls EXCEPT ![0] = @ + 1]
            /\ UNCHANGED <<calls, got_ok, delays, vanished, fs_stable>>
       ELSE /\ pc' = "seq_file"
            /\ calls' = 0
            /\ got_ok' = FALSE
            /\ delays' = <<>>
            /\ \E gone \in BOOLEAN :
                  /\ gone => Cardinality(vanished) < MaxMissing
                  /\ vanished' = IF gone THEN vanished \cup {idx} ELSE vanished
                  /\ fs_stable' = (fs_stable /\ ~gone)
            /\ UNCHANGED <<all_completed, disconnect_calls>>
    /\ UNCHANGED <<connect_result, exhausted, config_vars, flag_vars, total_bytes,
                   uploaded_bytes, count_vars, idx, attempt, pool_vars, overall_progress,
                   file_completed, collected, scanned, tally, calls_after_cancel,
                   connect_calls, dispatch_vars>>
    /\ UNCHANGED side_vars
    /\ UNCHANGED <<unsized, foreign_call, uploader_cancel>>

\* upload_files_sequential, lines 257-259 and 270: the head of the for loop; when the
\* list is exhausted or the cancel flag is set, emit_completion_signal and, through
\* run()'s finally, disconnect. Otherwise the next task is dispatched; its local file
\* may have disappeared since collection (gone).
SeqLoop ==
    /\ pc = "seq_loop"
    /\ IF idx > Len(files) \/ should_cancel
       THEN /\ all_completed' = Append(all_completed,
                   EmitCompletionSignal(should_cancel, successful_uploads,
                                        failed_uploads, Len(files)))
            /\ pc' = "done"
            /\ disconnect_calls' = [disconnect_calls EXCEPT ![0] = @ + 1]
            /\ UNCHANGED <<calls, got_ok, delays, vanished, fs_stable>>
       ELSE /\ pc' = "seq_file"
            /\ calls' = 0
            /\ got_ok' = FALSE
            /\ delays' = <<>>
            /\ \E gone \in BOOLEAN :
                  /\ gone => Cardinality(vanished) < MaxMissing
                  /\ vanished' = IF gone THEN vanished \cup {idx} ELSE vanished
                  /\ fs_stable' = (fs_stable /\ ~gone)
            /\ UNCHANGED <<all_completed, disconnect_calls>>
    /\ UNCHANGED <<connect_result, exhausted, config_vars, flag_vars, total_bytes, uploaded_bytes, count_vars, idx,
                   attempt, pool_vars, overall_progress, file_completed,
                   collected, scanned, tally, calls_after_cancel,
                   connect_calls, dispatch_vars>>
    /\ UNCHANGED side_vars
    /\ UNCHANGED <<unsized, foreign_call, uploader_cancel>>

\* Mutant: a failed task returns without its per-file completion event (as the early
\* return of line 357 does in the pool dispatch).
SeqFinishFile_FailureSilent(success, readable) ==
    /\ uploaded_bytes' = IF success /\ readable THEN uploaded_bytes + files[idx]
                         ELSE uploaded_bytes
    /\ overall_progress' = IF success /\ readable
                           THEN <<OverallEvent(uploaded_bytes' * 100, total_bytes)>>
                           ELSE overall_progress
    /\ file_completed' = IF success THEN [file_completed EXCEPT ![idx] = Append(@, success)]
                         ELSE file_completed
    /\ successful_uploads' = IF success THEN successful_uploads + 1 ELSE successful_uploads
    /\ failed_uploads' = IF success THEN failed_uploads ELSE failed_uploads + 1
    /\ tally' = [tally EXCEPT ![idx] = IF success THEN "succeeded" ELSE "failed"]
    /\ fs_stable' = (fs_stable /\ readable)
    /\ unsized' = IF success /\ ~readable THEN unsized \cup {idx} ELSE unsized
    /\ idx' = idx + 1
    /\ attempt' = 0
    /\ pc' = "seq_loop"

\* upload_single_file, lines 317-343, and the tally of lines 265-268: the end of one
\* task. readable: os.path.getsize(local_path) at line 328 did not raise; when it
\* raises, the warning of line 334 is logged and uploaded_bytes keeps its value.
SeqFinishFile(success, readable) ==
    /\ uploaded_bytes' = IF success /\ readable THEN uploaded_bytes + files[idx]
                         ELSE uploaded_bytes
    /\ overall_progress' = IF success /\ readable
                           THEN <<OverallEvent(uploaded_bytes' * 100, total_bytes)>>
                           ELSE overall_progress
    /\ file_completed' = [file_completed EXCEPT ![idx] = Append(@, success)]
    /\ successful_uploads' = IF success THEN successful_uploads + 1 ELSE successful_uploads
    /\ failed_uploads' = IF success THEN failed_uploads ELSE failed_uploads + 1
    /\ tally' = [tally EXCEPT ![idx] = IF success THEN "succeeded" ELSE "failed"]
    /\ fs_stable' = (fs_stable /\ readable)
    /\ unsized' = IF success /\ ~readable THEN unsized \cup {idx} ELSE unsized
    /\ idx' = idx + 1
    /\ attempt' = 0
    /\ pc' = "seq_loop"

\* Lines 261-262 (the pause wait, before the first attempt) and 280-282 (the cancel
\* check at the head of every attempt).
SeqAttempt ==
    /\ pc = "seq_file"
    /\ attempt = 0 => PauseWait
    /\ IF AttemptCancelled(attempt)
       THEN SeqFinishFile(FALSE, TRUE)
       ELSE /\ pc' = "seq_ready"
            /\ UNCHANGED <<uploaded_bytes, overall_progress, file_completed, count_vars,
                           tally, fs_stable, idx, attempt, unsized>>
    /\ UNCHANGED <<connect_result, exhausted, config_vars, flag_vars, total_bytes, pool_vars, all_completed,
                   collected, scanned, calls, got_ok, calls_after_cancel>>
    /\ UNCHANGED <<adapter_vars, dispatch_vars>>
    /\ UNCHANGED side_vars
    /\ UNCHANGED <<vanished, delays, foreign_call, uploader_cancel>>

\* Line 309: uploader.upload_file(...) is called.
SeqBegin ==
    /\ pc = "seq_ready"
    /\ pc' = "seq_uploading"
    /\ calls' = calls + 1
    /\ calls_after_cancel' = [calls_after_cancel EXCEPT ![0] = IF should_cancel THEN @ + 1 ELSE @]
    /\ UNCHANGED <<connect_result, exhausted, config_vars, flag_vars, total_bytes, uploaded_bytes, count_vars, idx,
                   attempt, got_ok, pool_vars, all_completed, overall_progress,
                   file_completed, collected, scanned, tally, fs_stable>>
    /\ UNCHANGED <<adapter_vars, dispatch_vars>>
    /\ UNCHANGED side_vars
    /\ UNCHANGED audit_vars

\* Mutant: the callback adds the bytes it reports to uploaded_bytes.
SeqProgress_Accumulates ==
    /\ pc = "seq_uploading"
    /\ idx \notin vanished
    /\ \E p \in Percents :
          IF ~should_cancel
          THEN /\ overall_progress' =
                     <<OverallEvent(uploaded_bytes * 100 + files[idx] * p, total_bytes)>>
               /\ uploaded_bytes' = uploaded_bytes + (files[idx] * p) \div 100
          ELSE UNCHANGED <<overall_progress, uploaded_bytes>>
    /\ UNCHANGED <<connect_result, exhausted, config_vars, flag_vars, total_bytes, count_vars, pc,
                   idx, attempt, calls, got_ok, pool_vars, all_completed, file_completed,
                   collected, scanned, tally, calls_after_cancel, fs_stable>>
    /\ UNCHANGED <<adapter_vars, dispatch_vars>>
    /\ UNCHANGED side_vars
    /\ UNCHANGED audit_vars

\* progress_callback(percent), lines 287-307, called by the adapter during upload_file.
\* (When getsize raises at line 292 nothing is emitted: the state a call without
\* callback leaves.) A call for a file that has disappeared fails before any progress.
SeqProgress ==
    /\ pc = "seq_uploading"
    /\ idx \notin vanished
    /\ \E p \in Percents :
          IF ~should_cancel
          THEN overall_progress' =
                   <<OverallEvent(uploaded_bytes * 100 + files[idx] * p, total_bytes)>>
          ELSE UNCHANGED overall_progress
    /\ UNCHANGED <<connect_result, exhausted, config_vars, flag_vars, total_bytes, uploaded_bytes, count_vars, pc,
                   idx, attempt, calls, got_ok, pool_vars, all_completed, file_completed,
                   collected, scanned, tally, calls_after_cancel, fs_stable>>
    /\ UNCHANGED <<adapter_vars, dispatch_vars>>
    /\ UNCHANGED side_vars
    /\ UNCHANGED audit_vars

\* Lines 309-315: upload_file returns (ok, message), non-ok when the local file has
\* disappeared (every adapter's upload_file turns the OSError into (False, message));
\* success ends the attempts, a failure before the last attempt sleeps (time.sleep(2))
\* and goes to the next attempt.
SeqReturn ==
    /\ pc = "seq_uploading"
    /\ \E ok \in BOOLEAN :
          /\ idx \in vanished => ~ok
          /\ got_ok' = ok
          /\ exhausted' = IF ~ok /\ calls = max_retries + 1 THEN exhausted \cup {idx}
                           ELSE exhausted
          /\ IF ~ok /\ HasNextAttempt(attempt)
             THEN /\ attempt' = attempt + 1
                  /\ pc' = "seq_file"
                  /\ delays' = Append(delays, RetryDelay(attempt))
                  /\ UNCHANGED <<uploaded_bytes, overall_progress, file_completed,
                                 count_vars, tally, fs_stable, idx, unsized>>
             ELSE /\ \E readable \in BOOLEAN : (~ok => readable) /\ SeqFinishFile(ok, readable)
                  /\ UNCHANGED delays
    /\ UNCHANGED <<connect_result, config_vars, flag_vars, total_bytes, pool_vars, all_completed,
                   collected, scanned, calls, calls_after_cancel>>
    /\ UNCHANGED <<adapter_vars, dispatch_vars>>
    /\ UNCHANGED side_vars
    /\ UNCHANGED <<vanished, foreign_call, uploader_cancel>>

\* ------------------------------------------------------------ pool dispatch
\* The task a free pool thread takes: the first one still pending in the work queue.
NextPending ==
    CHOOSE i \in Tasks : futures[i] = "pending" /\ \A j \in Tasks : futures[j] = "pending" => i <= j

\* Mutant: uploaded_bytes is assigned the file's size instead of increased by it.
ThrFinishFile_Assign(w, success) ==
    LET i == workers[w].cur IN
    /\ uploaded_bytes' = IF success THEN files[i] ELSE uploaded_bytes
    /\ overall_progress' = IF success
                           THEN <<OverallEvent(uploaded_bytes' * 100, total_bytes)>>
                           ELSE overall_progress
    /\ file_completed' = [file_completed EXCEPT ![i] = Append(@, success)]
    /\ workers' = [workers EXCEPT ![w] = [@ EXCEPT !.pc = "count", !.success = success,
                                                   !.attempt = 0, !.got_ok = success]]

\* upload_single_file_threaded, lines 392-415: the end of one task in a pool thread;
\* the tally follows in WorkerCount.
ThrFinishFile(w, success) ==
    LET i == workers[w].cur IN
    /\ uploaded_bytes' = IF success THEN uploaded_bytes + files[i] ELSE uploaded_bytes
    /\ overall_progress' = IF success
                           THEN <<OverallEvent(uploaded_bytes' * 100, total_bytes)>>
                           ELSE overall_progress
    /\ file_completed' = [file_completed EXCEPT ![i] = Append(@, success)]
    /\ workers' = [workers EXCEPT ![w] = [@ EXCEPT !.pc = "count", !.success = success,
                                                   !.attempt = 0, !.got_ok = success]]

\* Mutant: the task stays in the work queue when a thread takes it.
WorkerStart_LeftInQueue(w) ==
    /\ w \in Pool
    /\ workers[w].pc = "idle"
    /\ \E i \in Tasks : futures[i] = "pending"
    /\ LET i == NextPending IN
       \E connect_ok, readable \in BOOLEAN :
          /\ ~connect_ok => readable
          /\ ~readable => Cardinality(vanished) < MaxMissing
          /\ vanished' = IF readable THEN vanished ELSE vanished \cup {i}
          /\ runs' = [runs EXCEPT ![i] = @ + 1]
          /\ IF ~CreateUploader(uploader_config) \/ ~connect_ok
             THEN /\ futures' = [futures EXCEPT ![i] = "finished"]
                  /\ connect_calls' = IF CreateUploader(uploader_config)
                                       THEN [connect_calls EXCEPT ![i] = @ + 1]
                                       ELSE connect_calls
                  /\ UNCHANGED <<workers, fs_stable>>
             ELSE /\ UNCHANGED futures
                  /\ connect_calls' = [connect_calls EXCEPT ![i] = @ + 1]
                  /\ fs_stable' = (fs_stable /\ readable)
                  /\ workers' = [workers EXCEPT ![w] =
                        [IdleWorker EXCEPT !.pc = IF readable THEN "attempt" ELSE "count",
                                           !.cur = i]]
    /\ UNCHANGED <<connect_result, exhausted, config_vars, flag_vars, total_bytes, uploaded_bytes, count_vars, pc,
                   seq_vars, yielded, all_completed, overall_progress, file_completed,
                   collected, scanned, tally, calls_after_cancel, disconnect_calls,
                   size_error, submitted, raised>>
    /\ UNCHANGED side_vars
    /\ UNCHANGED <<unsized, delays, foreign_call, uploader_cancel>>

\* upload_worker, lines 190-204, with lines 353-357 of upload_single_file_threaded: a
\* pool thread takes a task, creates and connects its own adapter (connect_ok) and
\* reads the file's size (readable). A failed create or connect returns (False, 0)
\* with nothing counted and nothing disconnected; an unreadable size (the file has
\* disappeared) returns False before any attempt.
WorkerStart(w) ==
    /\ w \in Pool
    /\ workers[w].pc = "idle"
    /\ \E i \in Tasks : futures[i] = "pending"
    /\ LET i == NextPending IN
       \E connect_ok, readable \in BOOLEAN :
          /\ ~connect_ok => readable
          /\ ~readable => Cardinality(vanished) < MaxMissing
          /\ vanished' = IF readable THEN vanished ELSE vanished \cup {i}
          /\ runs' = [runs EXCEPT ![i] = @ + 1]
          /\ IF ~CreateUploader(uploader_config) \/ ~connect_ok
             THEN /\ futures' = [futures EXCEPT ![i] = "finished"]
                  /\ connect_calls' = IF CreateUploader(uploader_config)
                                       THEN [connect_calls EXCEPT ![i] = @ + 1]
                                       ELSE connect_calls
                  /\ UNCHANGED <<workers, fs_stable>>
             ELSE /\ futures' = [futures EXCEPT ![i] = "running"]
                  /\ connect_calls' = [connect_calls EXCEPT ![i] = @ + 1]
                  /\ fs_stable' = (fs_stable /\ readable)
                  /\ workers' = [workers EXCEPT ![w] =
                        [IdleWorker EXCEPT !.pc = IF readable THEN "attempt" ELSE "count",
                                           !.cur = i]]
    /\ UNCHANGED <<connect_result, exhausted, config_vars, flag_vars, total_bytes, uploaded_bytes, count_vars, pc,
                   seq_vars, yielded, all_completed, overall_progress, file_completed,
                   collected, scanned, tally, calls_after_cancel, disconnect_calls,
                   size_error, submitted, raised>>
    /\ UNCHANGED side_vars
    /\ UNCHANGED <<unsized, delays, foreign_call, uploader_cancel>>

\* Lines 359-361: the cancel check at the head of every attempt.
ThrAttempt(w) ==
    /\ w \in Pool
    /\ workers[w].pc = "attempt"
    /\ IF AttemptCancelled(workers[w].attempt)
       THEN ThrFinishFile(w, FALSE)
       ELSE /\ workers' = [workers EXCEPT ![w].pc = "ready"]
            /\ UNCHANGED <<uploaded_bytes, overall_progress, file_completed>>
    /\ UNCHANGED <<connect_result, exhausted, config_vars, flag_vars, total_bytes, count_vars, pc, seq_vars, futures,
                   yielded, all_completed, collected, scanned, tally, calls_after_cancel,
                   fs_stable>>
    /\ UNCHANGED <<adapter_vars, dispatch_vars>>
    /\ UNCHANGED side_vars
    /\ UNCHANGED audit_vars

\* Line 384: uploader.upload_file(...) is called, by pool thread w, on the adapter its
\* worker invocation was given at line 204.
ThrBegin(w) ==
    /\ w \in Pool
    /\ workers[w].pc = "ready"
    /\ workers' = [workers EXCEPT ![w] = [@ EXCEPT !.pc = "uploading", !.calls = @ + 1]]
    /\ calls_after_cancel' = [calls_after_cancel EXCEPT ![w] = IF should_cancel THEN @ + 1 ELSE @]
    /\ foreign_call' = (foreign_call \/ Creator(WorkerAdapter(w)) # w)
    /\ UNCHANGED <<connect_result, exhausted, config_vars, flag_vars, total_bytes, uploaded_bytes, count_vars, pc,
                   seq_vars, futures, yielded, all_completed, overall_progress,
                   file_completed, collected, scanned, tally, fs_stable>>
    /\ UNCHANGED <<adapter_vars, dispatch_vars>>
    /\ UNCHANGED side_vars
    /\ UNCHANGED <<vanished, unsized, delays, uploader_cancel>>

\* progress_callback(percent), lines 366-382, under upload_lock.
ThrProgress(w) ==
    /\ w \in Pool
    /\ workers[w].pc = "uploading"
    /\ \E p \in Percents :
          IF ~should_cancel
          THEN overall_progress' =
                   <<OverallEvent(uploaded_bytes * 100 + files[workers[w].cur] * p,
                                  total_bytes)>>
          ELSE UNCHANGED overall_progress
    /\ UNCHANGED <<connect_result, exhausted, config_vars, flag_vars, total_bytes, uploaded_bytes, count_vars, pc,
                   seq_vars, pool_vars, all_completed, file_completed, collected,
                   scanned, tally, calls_after_cancel, fs_stable>>
    /\ UNCHANGED <<adapter_vars, dispatch_vars>>
    /\ UNCHANGED side_vars
    /\ UNCHANGED audit_vars

\* Lines 384-390: upload_file returns (ok, message); a failure before the last attempt
\* sleeps (time.sleep(2)) and goes to the next attempt.
ThrReturn(w) ==
    /\ w \in Pool
    /\ workers[w].pc = "uploading"
    /\ \E ok \in BOOLEAN :
          /\ exhausted' = IF ~ok /\ workers[w].calls = max_retries + 1
                           THEN exhausted \cup {workers[w].cur} ELSE exhausted
          /\ IF ~ok /\ HasNextAttempt(workers[w].attempt)
             THEN /\ workers' = [workers EXCEPT ![w] =
                        [@ EXCEPT !.pc = "attempt", !.attempt = @ + 1,
                                  !.delays = Append(@, RetryDelay(workers[w].attempt))]]
                  /\ UNCHANGED <<uploaded_bytes, overall_progress, file_completed>>
             ELSE ThrFinishFile(w, ok)
    /\ UNCHANGED <<connect_result, config_vars, flag_vars, total_bytes, count_vars, pc, seq_vars, futures,
                   yielded, all_completed, collected, scanned, tally, calls_after_cancel,
                   fs_stable>>
    /\ UNCHANGED <<adapter_vars, dispatch_vars>>
    /\ UNCHANGED side_vars
    /\ UNCHANGED audit_vars

\* upload_worker, lines 205-214: disconnect the thread's adapter, count the result
\* under upload_lock, return.
WorkerCount(w) ==
    /\ w \in Pool
    /\ workers[w].pc = "count"
    /\ LET i == workers[w].cur
           success == workers[w].success IN
          /\ successful_uploads' = IF success THEN successful_uploads + 1 ELSE successful_uploads
          /\ failed_uploads' = IF success THEN failed_uploads ELSE failed_uploads + 1
          /\ tally' = [tally EXCEPT ![i] = IF success THEN "succeeded" ELSE "failed"]
          /\ futures' = [futures EXCEPT ![i] = "finished"]
          /\ disconnect_calls' = [disconnect_calls EXCEPT ![i] = @ + 1]
    /\ workers' = [workers EXCEPT ![w] = IdleWorker]
    /\ UNCHANGED <<connect_result, exhausted, config_vars, flag_vars, total_bytes, uploaded_bytes, pc, seq_vars,
                   yielded, all_completed, overall_progress, file_completed, collected,
                   scanned, calls_after_cancel, fs_stable, connect_calls, dispatch_vars>>
    /\ UNCHANGED side_vars
    /\ UNCHANGED audit_vars

\* Mutant: the exception future.result() re-raises is swallowed without counting.
MainAsCompleted_ExceptionNotCounted ==
    /\ pc = "as_completed"
    /\ \E i \in Tasks :
          /\ futures[i] = "finished"
          /\ i \notin yielded
          /\ IF should_cancel
             THEN /\ futures' = [j \in Tasks |->
                                   IF futures[j] = "pending" THEN "cancelled" ELSE futures[j]]
                  /\ all_completed' = Append(all_completed,
                         EmitCompletionSignal(should_cancel, successful_uploads,
                                              failed_uploads, Len(files)))
                  /\ pc' = "done"
                  /\ disconnect_calls' = [disconnect_calls EXCEPT ![0] = @ + 1]
                  /\ UNCHANGED <<yielded, count_vars, tally>>
             ELSE /\ yielded' = yielded \cup {i}
                  /\ UNCHANGED <<futures, all_completed, pc, count_vars, tally,
                                 disconnect_calls>>
    /\ UNCHANGED <<connect_result, exhausted, config_vars, flag_vars, total_bytes, uploaded_bytes,
                   seq_vars, workers, overall_progress, file_completed, collected,
                   scanned, calls_after_cancel, fs_stable, connect_calls, dispatch_vars>>
    /\ UNCHANGED side_vars
    /\ UNCHANGED audit_vars

\* Mutant: the cancel branch emits the completion itself and the loop goes on.
MainAsCompleted_EmitInLoop ==
    /\ pc = "as_completed"
    /\ \E i \in Tasks :
          /\ futures[i] = "finished"
          /\ i \notin yielded
          /\ IF should_cancel
             THEN /\ all_completed' = Append(all_completed,
                         EmitCompletionSignal(should_cancel, successful_uploads,
                                              failed_uploads, Len(files)))
                  /\ yielded' = yielded \cup {i}
                  /\ UNCHANGED <<futures, pc, disconnect_calls, count_vars, tally>>
             ELSE /\ yielded' = yielded \cup {i}
                  /\ failed_uploads' = IF i \in raised THEN failed_uploads + 1
                                        ELSE failed_uploads
                  /\ tally' = IF i \in raised THEN [tally EXCEPT ![i] = "failed"] ELSE tally
                  /\ UNCHANGED <<futures, all_completed, pc, successful_uploads,
                                 disconnect_calls>>
    /\ UNCHANGED <<connect_result, exhausted, config_vars, flag_vars, total_bytes, uploaded_bytes,
                   seq_vars, workers, overall_progress, file_completed, collected,
                   scanned, calls_after_cancel, fs_stable, connect_calls, dispatch_vars>>
    /\ UNCHANGED side_vars
    /\ UNCHANGED audit_vars

\* upload_files_threaded, lines 226-250: as_completed yields a finished future. With
\* the cancel flag set, the pending futures are cancelled, the executor is shut down
\* without waiting, emit_completion_signal follows and run()'s finally disconnects;
\* otherwise the result is read, and a future that holds an exception is counted as
\* failed (lines 240-243).
MainAsCompleted ==
    /\ pc = "as_completed"
    /\ \E i \in Tasks :
          /\ futures[i] = "finished"
          /\ i \notin yielded
          /\ IF should_cancel
             THEN /\ futures' = [j \in Tasks |->
                                   IF futures[j] = "pending" THEN "cancelled" ELSE futures[j]]
                  /\ all_completed' = Append(all_completed,
                         EmitCompletionSignal(should_cancel, successful_uploads,
                                              failed_uploads, Len(files)))
                  /\ pc' = "done"
                  /\ disconnect_calls' = [disconnect_calls EXCEPT ![0] = @ + 1]
                  /\ UNCHANGED <<yielded, count_vars, tally>>
             ELSE /\ yielded' = yielded \cup {i}
                  /\ failed_uploads' = IF i \in raised THEN failed_uploads + 1
                                        ELSE failed_uploads
                  /\ tally' = IF i \in raised THEN [tally EXCEPT ![i] = "failed"] ELSE tally
                  /\ UNCHANGED <<futures, all_completed, pc, successful_uploads,
                                 disconnect_calls>>
    /\ UNCHANGED <<connect_result, exhausted, config_vars, flag_vars, total_bytes, uploaded_bytes,
                   seq_vars, workers, overall_progress, file_completed, collected,
                   scanned, calls_after_cancel, fs_stable, connect_calls, dispatch_vars>>
    /\ UNCHANGED side_vars
    /\ UNCHANGED audit_vars

\* upload_files_threaded, lines 244-250: every future has been yielded; shut the
\* executor down and emit_completion_signal; run()'s finally disconnects.
MainEmit ==
    /\ pc = "as_completed"
    /\ yielded = Tasks
    /\ all_completed' = Append(all_completed,
           EmitCompletionSignal(should_cancel, successful_uploads, failed_uploads,
                                Len(files)))
    /\ pc' = "done"
    /\ disconnect_calls' = [disconnect_calls EXCEPT ![0] = @ + 1]
    /\ UNCHANGED <<connect_result, exhausted, config_vars, flag_vars, total_bytes, uploaded_bytes, count_vars,
                   seq_vars, pool_vars, overall_progress, file_completed, collected,
                   scanned, tally, calls_after_cancel, fs_stable, connect_calls,
                   dispatch_vars>>
    /\ UNCHANGED side_vars
    /\ UNCHANGED audit_vars

\* upload_worker, lines 203-206, with an exception nothing catches: upload_file raises
\* (pc "uploading") or disconnect itself raises (pc "count"). The exception leaves
\* upload_single_file_threaded, finally calls disconnect, the tally of lines 208-212 is
\* skipped and the future holds the exception.
ThrRaise(w) ==
    /\ w \in Pool
    /\ workers[w].pc \in {"uploading", "count"}
    /\ LET i == workers[w].cur IN
          /\ raised' = raised \cup {i}
          /\ futures' = [futures EXCEPT ![i] = "finished"]
          /\ disconnect_calls' = [disconnect_calls EXCEPT ![i] = @ + 1]
    /\ workers' = [workers EXCEPT ![w] = IdleWorker]
    /\ UNCHANGED <<connect_result, exhausted, config_vars, flag_vars, total_bytes, uploaded_bytes, count_vars, pc,
                   seq_vars, yielded, all_completed, overall_progress, file_completed,
                   collected, scanned, tally, calls_after_cancel, fs_stable,
                   connect_calls, size_error, submitted, runs>>
    /\ UNCHANGED side_vars
    /\ UNCHANGED audit_vars

\* ------------------------------------------------------- the caller's thread
\* Mutant: cancel() also passes the flag on to every adapter (set_cancel, base.py 23-25).
Cancel_SetsAdapters ==
    /\ ~should_cancel
    /\ should_cancel' = TRUE
    /\ uploader_cancel' = [a \in Adapters |-> TRUE]
    /\ UNCHANGED <<connect_result, exhausted, config_vars, is_paused, total_bytes, uploaded_bytes, count_vars, pc,
                   seq_vars, pool_vars, all_completed, overall_progress, file_completed,
                   collected, scanned, tally, calls_after_cancel, fs_stable>>
    /\ UNCHANGED <<adapter_vars, dispatch_vars>>
    /\ UNCHANGED side_vars
    /\ UNCHANGED <<vanished, unsized, delays, foreign_call>>

\* cancel(), lines 436-437: the session's flag is set; nothing calls an adapter's
\* set_cancel, so the flags the adapters read during a transfer stay false.
Cancel ==
    /\ ~should_cancel
    /\ should_cancel' = TRUE
    /\ UNCHANGED <<connect_result, exhausted, config_vars, is_paused, total_bytes, uploaded_bytes, count_vars, pc,
                   seq_vars, pool_vars, all_completed, overall_progress, file_completed,
                   collected, scanned, tally, calls_after_cancel, fs_stable>>
    /\ UNCHANGED <<adapter_vars, dispatch_vars>>
    /\ UNCHANGED side_vars
    /\ UNCHANGED audit_vars

\* pause(), lines 439-440. Only the sequential loop reads is_paused (line 261), so the
\* call is modelled while that loop runs.
Pause ==
    /\ ~is_paused
    /\ pc \in {"seq_loop", "seq_file", "seq_ready", "seq_uploading"}
    /\ is_paused' = TRUE
    /\ UNCHANGED <<connect_result, exhausted, config_vars, should_cancel, total_bytes, uploaded_bytes, count_vars, pc,
                   seq_vars, pool_vars, all_completed, overall_progress, file_completed,
                   collected, scanned, tally, calls_after_cancel, fs_stable>>
    /\ UNCHANGED <<adapter_vars, dispatch_vars>>
    /\ UNCHANGED side_vars
    /\ UNCHANGED audit_vars

\* resume(), lines 442-443.
Resume ==
    /\ is_paused
    /\ is_paused' = FALSE
    /\ UNCHANGED <<connect_result, exhausted, config_vars, should_cancel, total_bytes, uploaded_bytes, count_vars, pc,
                   seq_vars, pool_vars, all_completed, overall_progress, file_completed,
                   collected, scanned, tally, calls_after_cancel, fs_stable>>
    /\ UNCHANGED <<adapter_vars, dispatch_vars>>
    /\ UNCHANGED side_vars
    /\ UNCHANGED audit_vars

Next ==
    \/ RunStart
    \/ CollectAndDispatch
    \/ SeqLoop
    \/ SeqAttempt
    \/ SeqBegin
    \/ SeqProgress
    \/ SeqReturn
    \/ \E w \in 1 .. MaxThreadsBound : WorkerStart(w)
    \/ \E w \in 1 .. MaxThreadsBound : ThrAttempt(w)
    \/ \E w \in 1 .. MaxThreadsBound : ThrBegin(w)
    \/ \E w \in 1 .. MaxThreadsBound : ThrProgress(w)
    \/ \E w \in 1 .. MaxThreadsBound : ThrReturn(w)
    \/ \E w \in 1 .. MaxThreadsBound : WorkerCount(w)
    \/ MainAsCompleted
    \/ MainEmit
    \/ Cancel
    \/ Pause
    \/ Resume

Spec == Init /\ [][Next]_vars

\* The pool dispatch with workers that may raise: the sessions with max_threads > 1
\* and no retries, their steps with an adapter that reports no progress, and ThrRaise.
InitPool == Init /\ max_threads > 1 /\ max_retries = 0
NextPoolFaults ==
    \/ RunStart
    \/ CollectAndDispatch
    \/ \E w \in 1 .. MaxThreadsBound : WorkerStart(w)
    \/ \E w \in 1 .. MaxThreadsBound : ThrAttempt(w)
    \/ \E w \in 1 .. MaxThreadsBound : ThrBegin(w)
    \/ \E w \in 1 .. MaxThreadsBound : ThrReturn(w)
    \/ \E w \in 1 .. MaxThreadsBound : ThrRaise(w)
    \/ \E w \in 1 .. MaxThreadsBound : WorkerCount(w)
    \/ MainAsCompleted
    \/ MainEmit
    \/ Cancel
SpecPoolFaults == InitPool /\ [][NextPoolFaults]_vars

\* ------------------------------------------------------------ collect_files
\* Paths are the sequences of their components ('root/sub/file.txt' is
\* <<"root", "sub", "file.txt">>, '' is <<>>, a trailing '/' is a last component "").
\* The file names that start with '.'.
HiddenNames == {".env", ".git", ".cache"}
\* The ignore patterns as typed, each stripped by pattern.strip().
Strip(p) == IF p = " build " THEN "build" ELSE IF p = "   " THEN "" ELSE p
\* re.compile(p) succeeds; '[' raises re.error.
Compiles(p) == p # "["
\* pattern.search(name) finds a match: a search anywhere in the name, not a full match.
Search(p, name) ==
    \/ p = "\\.tmp$" /\ name \in {"notes.tmp"}
    \/ p = "build" /\ name \in {"build", "rebuild.sh"}
PatternLists == {<<>>, <<"\\.tmp$">>, <<" build ", "[">>, <<"   ", "\\.tmp$">>}
\* remote_dir: '', 'uploads', 'uploads/'.
RemoteDirs == {<<>>, <<"uploads">>, <<"uploads", "">>}

\* The files os.walk finds under a directory, each by its path below the directory, in
\* the order of the walk (a directory's files before its subdirectories).
Tree ==
    << <<"notes.tmp">>, <<"rebuild.sh">>, <<"a\\b.txt">>, <<".git", "config">>,
       <<"build", ".env">>, <<"build", "out.o">>, <<"sub", ".env">>,
       <<"sub", "file.txt">> >>
\* What a root of the selection is when collect_files reaches it: a file, a directory
\* (with the files below it), neither (vanished), or one whose access raises OSError.
RootChoices ==
    { [kind |-> "dir", path |-> <<"root">>, entries |-> Tree],
      [kind |-> "dir", path |-> <<"root", "">>, entries |-> Tree],
      [kind |-> "dir", path |-> <<"home", "build">>, entries |-> << <<".env">>, <<"x.c">> >>],
      [kind |-> "dir", path |-> <<"home", ".cache">>, entries |-> << <<"data.bin">> >>],
      [kind |-> "file", path |-> <<"home", "file.txt">>, entries |-> <<>>],
      [kind |-> "file", path |-> <<"home", ".env">>, entries |-> <<>>],
      [kind |-> "file", path |-> <<"notes.tmp">>, entries |-> <<>>],
      [kind |-> "gone", path |-> <<"home", "gone">>, entries |-> <<>>],
      [kind |-> "error", path |-> <<"mnt", "locked">>, entries |-> <<>>] }
Selections == UNION {[1 .. n -> RootChoices] : n \in 0 .. MaxRoots}

\* os.path.basename, os.path.dirname.
Basename(path) == IF path = <<>> THEN "" ELSE path[Len(path)]
Dirname(path) == IF path = <<>> THEN <<>> ELSE SubSeq(path, 1, Len(path) - 1)
\* A path without the empty component a trailing '/' leaves.
NormPath(path) == IF path # <<>> /\ path[Len(path)] = "" THEN Dirname(path) ELSE path
\* os.path.join(a, b) for a relative b.
OsJoin(a, b) == NormPath(a) \o b
\* os.path.relpath(path, start) for a path below start ('' is the current directory).
RelPath(path, start) == SubSeq(path, Len(NormPath(start)) + 1, Len(path))
\* str.replace('\\', '/'): a backslash in a name becomes a separator.
RECURSIVE ForwardSlashes(_)
ForwardSlashes(path) ==
    IF path = <<>> THEN <<>>
    ELSE (IF path[1] = "a\\b.txt" THEN <<"a", "b.txt">> ELSE <<path[1]>>)
         \o ForwardSlashes(Tail(path))

\* Lines 140-146: the stripped, non-blank patterns that compile.
CompiledPatterns(patterns) ==
    LET Stripped == [k \in DOMAIN patterns |-> Strip(patterns[k])]
        Kept(q) == q # "" /\ Compiles(q)
    IN SelectSeq(Stripped, Kept)
\* The warnings of line 146, one for each non-blank pattern that does not compile.
PatternWarnings(patterns) ==
    LET Bad(q) == Strip(q) # "" /\ ~Compiles(Strip(q))
        BadOnes == SelectSeq(patterns, Bad)
    IN [k \in DOMAIN BadOnes |-> <<"warning", BadOnes[k]>>]

\* Mutant: the compiled patterns are not consulted.
ShouldIgnore_HiddenOnly(filename) ==
    ~include_hidden_files /\ filename \in HiddenNames
\* _should_ignore(filename, compiled_patterns), lines 417-425.
ShouldIgnore(filename) ==
    \/ ~include_hidden_files /\ filename \in HiddenNames
    \/ \E k \in DOMAIN compiled_patterns : Search(compiled_patterns[k], filename)

\* Mutant: the two structure modes are exchanged.
RelStart_Exchanged(root_path) ==
    IF upload_directory_contents_only THEN Dirname(root_path) ELSE root_path
\* Lines 167-172: the directory the remote path is taken relative to.
RelStart(root_path) ==
    IF upload_directory_contents_only THEN root_path ELSE Dirname(root_path)

\* Mutant: the walk descends into every directory (line 159 is missing).
WalkItems_NoPrune(r, k) ==
    LET Kept(e) == ~ShouldIgnore(e[Len(e)])
        Found == SelectSeq(r.entries, Kept)
        Local(e) == OsJoin(r.path, e)
    IN [j \in DOMAIN Found |->
           [local |-> Local(Found[j]),
            remote |-> ForwardSlashes(OsJoin(remote_dir,
                           RelPath(Local(Found[j]), RelStart(r.path)))),
            root |-> k]]
\* Lines 157-175: the work items of the directory root r, the k-th of the selection.
\* The walk does not descend into an ignored directory and skips an ignored file.
WalkItems(r, k) ==
    LET Kept(e) == \A j \in 1 .. Len(e) : ~ShouldIgnore(e[j])
        Found == SelectSeq(r.entries, Kept)
        Local(e) == OsJoin(r.path, e)
    IN [j \in DOMAIN Found |->
           [local |-> Local(Found[j]),
            remote |-> ForwardSlashes(OsJoin(remote_dir,
                           RelPath(Local(Found[j]), RelStart(r.path)))),
            root |-> k]]

\* A call of collect_files with every argument drawn from the input sets.
InitCollect ==
    /\ InitSession
    /\ uploader_config = [protocol |-> "SFTP", complete |-> TRUE]
    /\ files = <<>> /\ max_retries = 0 /\ max_threads = 1
    /\ selection \in Selections
    /\ remote_dir \in RemoteDirs
    /\ ignore_patterns \in PatternLists
    /\ include_hidden_files \in BOOLEAN
    /\ upload_directory_contents_only \in BOOLEAN
    /\ compiled_patterns = <<>>
    /\ all_files = <<>>
    /\ root_idx = 1
    /\ cpc = "compile"
    /\ log = <<>>
    /\ ThrottleIdle
    /\ SpeedIdle

\* Lines 140-148.
CompilePatterns ==
    /\ cpc = "compile"
    /\ compiled_patterns' = CompiledPatterns(ignore_patterns)
    /\ log' = log \o PatternWarnings(ignore_patterns)
    /\ cpc' = "roots"
    /\ UNCHANGED <<session_vars, throttle_vars, speed_vars, collect_args, all_files, root_idx>>

\* Mutant: a file root's remote path is joined to the remote base directory.
CollectFileRoot_Joined ==
    /\ cpc = "roots" /\ root_idx <= Len(selection)
    /\ selection[root_idx].kind = "file"
    /\ LET path == selection[root_idx].path IN
          all_files' = IF ShouldIgnore(Basename(path)) THEN all_files
                       ELSE Append(all_files,
                                [local |-> path,
                                 remote |-> OsJoin(remote_dir, <<Basename(path)>>),
                                 root |-> root_idx])
    /\ root_idx' = root_idx + 1
    /\ UNCHANGED <<session_vars, throttle_vars, speed_vars, collect_args, compiled_patterns, cpc, log>>
\* Lines 151-153: a root that is a file.
CollectFileRoot ==
    /\ cpc = "roots" /\ root_idx <= Len(selection)
    /\ selection[root_idx].kind = "file"
    /\ LET path == selection[root_idx].path IN
          all_files' = IF ShouldIgnore(Basename(path)) THEN all_files
                       ELSE Append(all_files, [local |-> path, remote |-> <<Basename(path)>>,
                                               root |-> root_idx])
    /\ root_idx' = root_idx + 1
    /\ UNCHANGED <<session_vars, throttle_vars, speed_vars, collect_args, compiled_patterns, cpc, log>>

\* Lines 154-175: a root that is a directory.
CollectDirRoot ==
    /\ cpc = "roots" /\ root_idx <= Len(selection)
    /\ selection[root_idx].kind = "dir"
    /\ LET r == selection[root_idx] IN
          all_files' = IF ShouldIgnore(Basename(r.path)) THEN all_files
                       ELSE all_files \o WalkItems(r, root_idx)
    /\ root_idx' = root_idx + 1
    /\ UNCHANGED <<session_vars, throttle_vars, speed_vars, collect_args, compiled_patterns, cpc, log>>

\* Lines 151 and 154 both false: the root is neither a file nor a directory (it has
\* vanished); nothing is collected and nothing is logged.
SkipRoot ==
    /\ cpc = "roots" /\ root_idx <= Len(selection)
    /\ selection[root_idx].kind = "gone"
    /\ root_idx' = root_idx + 1
    /\ UNCHANGED <<session_vars, throttle_vars, speed_vars, collect_args, compiled_patterns, all_files, cpc, log>>

\* Mutant: the OSError ends the loop over the roots.
RootError_Abort ==
    /\ cpc = "roots" /\ root_idx <= Len(selection)
    /\ selection[root_idx].kind = "error"
    /\ log' = Append(log, <<"error", root_idx>>)
    /\ root_idx' = Len(selection) + 1
    /\ UNCHANGED <<session_vars, throttle_vars, speed_vars, collect_args, compiled_patterns, all_files, cpc>>

\* Lines 176-177: accessing the root raises OSError; the error is logged and the loop
\* goes on with the next root.
RootError ==
    /\ cpc = "roots" /\ root_idx <= Len(selection)
    /\ selection[root_idx].kind = "error"
    /\ log' = Append(log, <<"error", root_idx>>)
    /\ root_idx' = root_idx + 1
    /\ UNCHANGED <<session_vars, throttle_vars, speed_vars, collect_args, compiled_patterns, all_files, cpc>>

\* Line 179.
CollectReturn ==
    /\ cpc = "roots" /\ root_idx > Len(selection)
    /\ cpc' = "returned"
    /\ UNCHANGED <<session_vars, throttle_vars, speed_vars, collect_args, compiled_patterns, all_files, root_idx,
                   log>>

NextCollect ==
    \/ CompilePatterns
    \/ CollectFileRoot
    \/ CollectDirRoot
    \/ SkipRoot
    \/ RootError
    \/ CollectReturn

SpecCollect == InitCollect /\ [][NextCollect]_vars

\* ------------------------------------------------------- bandwidth throttle
\* One adapter object from its construction on: the session's adapter serves every file
\* of a sequential session, a pool worker's adapter serves one task. Times are whole
\* seconds and sizes are bytes.
MaxChunks == 3
MaxLimit == 2
MaxClock == 4
\* The uploader classes create_uploader can build (worker.py 87-130; FTPS is FTPUploader).
AdapterClasses == {"FTP", "SFTP", "HTTP", "S3"}
\* storbinary's block size (ftp.py 92), and a shorter last block.
BlockSize == 8192
ChunkSizes == {BlockSize, BlockSize \div 2}
\* time.time() when the adapter is constructed.
StartTimes == {0, 3}
\* time.sleep(d) suspends for d or longer.
Oversleep == {0, 1}
\* The session of an idle worker, while another component is exercised.
SessionIdle ==
    /\ InitSession
    /\ uploader_config = [protocol |-> "SFTP", complete |-> TRUE]
    /\ files = <<>> /\ max_retries = 0 /\ max_threads = 1

\* BaseUploader.__init__ (base.py 8-13), for each class and each bandwidth_limit (KB/s).
InitThrottle ==
    /\ SessionIdle
    /\ CollectIdle
    /\ SpeedIdle
    /\ adapter \in AdapterClasses
    /\ bandwidth_limit \in 0 .. MaxLimit
    /\ last_byte_time \in StartTimes
    /\ clock = last_byte_time
    /\ bytes_transferred = 0
    /\ sent = 0
    /\ uploaded = 0
    /\ chunks = 0
    /\ charged = 0
    /\ slept = 0

\* bandwidth_limit * 1024 (line 45): the cap in bytes per second.
BytesPerSecond == bandwidth_limit * 1024
\* The first whole second at which expected_time = transferred / BytesPerSecond has
\* passed since last_byte_time.
ExpectedTime(transferred) == (transferred + BytesPerSecond - 1) \div BytesPerSecond

\* Mutant: the delay is computed from this chunk alone, not from the cumulative count.
ThrottleBandwidth_PerChunk(bytes_sent) ==
    /\ charged' = charged + bytes_sent
    /\ IF bandwidth_limit <= 0
       THEN UNCHANGED <<bytes_transferred, clock, slept>>
       ELSE LET actual_time == clock - last_byte_time
            IN  /\ bytes_transferred' = bytes_transferred + bytes_sent
                /\ IF actual_time * BytesPerSecond < bytes_sent
                   THEN /\ \E over \in Oversleep :
                              clock' = last_byte_time + ExpectedTime(bytes_sent) + over
                        /\ slept' = slept + (clock' - clock)
                   ELSE UNCHANGED <<clock, slept>>
    /\ UNCHANGED <<bandwidth_limit, last_byte_time>>
\* _throttle_bandwidth (base.py 35-49). actual_time < expected_time is compared without
\* the division; the sleep of expected_time - actual_time ends when expected_time has
\* passed since last_byte_time, or later. last_byte_time is never assigned again.
ThrottleBandwidth(bytes_sent) ==
    /\ charged' = charged + bytes_sent
    /\ IF bandwidth_limit <= 0
       THEN UNCHANGED <<bytes_transferred, clock, slept>>
       ELSE LET actual_time == clock - last_byte_time
                transferred == bytes_transferred + bytes_sent
            IN  /\ bytes_transferred' = transferred
                /\ IF actual_time * BytesPerSecond < transferred
                   THEN /\ \E over \in Oversleep :
                              clock' = last_byte_time + ExpectedTime(transferred) + over
                        /\ slept' = slept + (clock' - clock)
                   ELSE UNCHANGED <<clock, slept>>
    /\ UNCHANGED <<bandwidth_limit, last_byte_time>>

\* What every step of this component leaves alone.
ThrottleFrame == UNCHANGED <<session_vars, collect_vars, speed_vars, adapter>>

\* The callback storbinary calls with each block it has sent (ftp.py 80-90). The
\* adapter's should_cancel is never set (line 82 is never taken).
FtpCallback(n) ==
    /\ adapter = "FTP"
    /\ chunks < MaxChunks
    /\ chunks' = chunks + 1
    /\ sent' = sent + n
    /\ uploaded' = uploaded + n
    /\ ThrottleBandwidth(n)
    /\ ThrottleFrame
\* ProgressTracker.progress (sftp.py 72-80) after n more bytes: transferred is the count
\* for this file; self.uploaded is assigned before the difference is taken.
SftpProgress(n) ==
    /\ adapter = "SFTP"
    /\ chunks < MaxChunks
    /\ chunks' = chunks + 1
    /\ sent' = sent + n
    /\ LET transferred == uploaded + n
       IN  /\ uploaded' = transferred
           /\ ThrottleBandwidth(transferred - uploaded')
    /\ ThrottleFrame
\* HTTPUploader.upload_file (http.py 58-83): the whole file in one request, then
\* progress_callback(100.0); _throttle_bandwidth is not called.
HttpUpload(n) ==
    /\ adapter = "HTTP"
    /\ chunks < MaxChunks
    /\ chunks' = chunks + 1
    /\ sent' = sent + n
    /\ uploaded' = n
    /\ UNCHANGED <<bandwidth_limit, last_byte_time, bytes_transferred, clock, charged,
                   slept>>
    /\ ThrottleFrame
\* S3ProgressCallback.__call__ (s3.py 61-64): _throttle_bandwidth is not called.
S3Callback(n) ==
    /\ adapter = "S3"
    /\ chunks < MaxChunks
    /\ chunks' = chunks + 1
    /\ sent' = sent + n
    /\ uploaded' = uploaded + n
    /\ UNCHANGED <<bandwidth_limit, last_byte_time, bytes_transferred, clock, charged,
                   slept>>
    /\ ThrottleFrame
\* The next upload_file call on the same adapter starts its count at 0 (ftp.py 78,
\* sftp.py 69, s3.py 59).
NextUpload ==
    /\ uploaded > 0
    /\ uploaded' = 0
    /\ UNCHANGED <<bandwidth_limit, last_byte_time, bytes_transferred, sent, chunks,
                   clock, charged, slept>>
    /\ ThrottleFrame
\* A second passes outside the throttle (the network send, another file's setup).
Tick ==
    /\ clock < MaxClock
    /\ clock' = clock + 1
    /\ UNCHANGED <<bandwidth_limit, last_byte_time, bytes_transferred, sent, uploaded,
                   chunks, charged, slept>>
    /\ ThrottleFrame

NextThrottle ==
    \/ \E n \in ChunkSizes : FtpCallback(n)
    \/ \E n \in ChunkSizes : SftpProgress(n)
    \/ \E n \in ChunkSizes : HttpUpload(n)
    \/ \E n \in ChunkSizes : S3Callback(n)
    \/ NextUpload
    \/ Tick

SpecThrottle == InitThrottle /\ [][NextThrottle]_vars

\* ------------------------------------------------------------ speed display
\* update_speed, the slot of speed_signal in the main window (ui.py 1343-1353).
MaxSamples == 12
\* Line 1349: the number of samples the average is taken over.
SpeedHistorySize == 10
\* The speeds (KB/s) a sample can carry.
SpeedValues == {0, 1500}
RECURSIVE SeqSum(_)
SeqSum(q) == IF q = <<>> THEN 0 ELSE q[1] + SeqSum(Tail(q))

\* start_upload has emptied the history (line 1091).
InitSpeed ==
    /\ SessionIdle
    /\ CollectIdle
    /\ ThrottleIdle
    /\ SpeedIdle

\* Mutant: the average is taken before the oldest sample is dropped.
UpdateSpeed_MeanBeforePop(speed_kbps) ==
    /\ Len(samples) < MaxSamples
    /\ LET appended == Append(speed_history, speed_kbps)
       IN  /\ speed_history' = IF Len(appended) > SpeedHistorySize THEN Tail(appended)
                               ELSE appended
           /\ avg_speed' = [sum |-> SeqSum(appended), count |-> Len(appended)]
    /\ samples' = Append(samples, speed_kbps)
    /\ UNCHANGED <<session_vars, collect_vars, throttle_vars>>
\* update_speed(speed_kbps), lines 1346-1353: append, pop(0) when more than 10 are held,
\* then sum / len, kept as the pair of the sum and the count.
UpdateSpeed(speed_kbps) ==
    /\ Len(samples) < MaxSamples
    /\ LET appended == Append(speed_history, speed_kbps)
       IN  /\ speed_history' = IF Len(appended) > SpeedHistorySize THEN Tail(appended)
                               ELSE appended
           /\ avg_speed' = IF speed_history' # <<>>
                           THEN [sum |-> SeqSum(speed_history'),
                                 count |-> Len(speed_history')]
                           ELSE [sum |-> 0, count |-> 1]
    /\ samples' = Append(samples, speed_kbps)
    /\ UNCHANGED <<session_vars, collect_vars, throttle_vars>>

NextSpeed == \E speed_kbps \in SpeedValues : UpdateSpeed(speed_kbps)

SpecSpeed == InitSpeed /\ [][NextSpeed]_vars

\* ================================================================== claims
\* The session-completion event, once emitted.
Emitted == all_completed # <<>>
Event == all_completed[1]
\* The upload_file calls begun so far for the task a pool thread holds, and all threads'.
AllCalls == {calls} \cup {workers[w].calls : w \in 1 .. MaxThreadsBound}

\* ---- C1
\* Sequential dispatch: the task that has just ended (idx - 1), with no cancellation.
C1_Sequential ==
    (pc = "seq_loop" /\ idx > 1 /\ ~should_cancel /\ calls >= 1) =>
        /\ ~got_ok => calls = max_retries + 1 /\ tally[idx - 1] = "failed"
        /\ got_ok => tally[idx - 1] = "succeeded"
\* Pool dispatch: the step in which a pool thread counts its task, with no cancellation.
C1_Threaded ==
    \A w \in 1 .. MaxThreadsBound :
        (workers[w].pc = "count" /\ workers'[w].pc = "idle" /\ ~should_cancel
         /\ workers[w].calls >= 1) =>
            LET i == workers[w].cur IN
            /\ ~workers[w].got_ok =>
                  workers[w].calls = max_retries + 1 /\ tally'[i] = "failed"
            /\ workers[w].got_ok => tally'[i] = "succeeded"
\* C1: with cancellation never signalled, in both dispatch modes, a task all of whose
\* upload_file calls return non-ok receives exactly max_retries + 1 calls and is then
\* counted as failed; a task whose call returns ok (also the (max_retries + 1)-th) is
\* counted as succeeded; no task ever receives more than max_retries + 1 calls.
C1_RetryCount ==
    /\ [](C1_Sequential /\ \A n \in AllCalls : n <= max_retries + 1)
    /\ [][C1_Threaded]_vars
\* A sequential task has failed max_retries + 1 = 3 times and is counted as failed,
\* and a task before it succeeded on its last allowed attempt.
C1_Witness ==
    /\ pc = "seq_loop" /\ idx = 3 /\ ~should_cancel
    /\ max_retries = 2 /\ calls = 3 /\ ~got_ok
    /\ tally[2] = "failed" /\ tally[1] = "succeeded"

\* ---- C2
\* C2: whenever the session-completion event reports success (outcome Completed),
\* uploaded_bytes equals total_bytes, in both dispatch modes, whatever the pool
\* threads' connect results and the upload results.
C2_CompletedMeansAllBytes ==
    (Emitted /\ Event.success) => uploaded_bytes = total_bytes

\* ---- C3
\* C3: a session-completion event emitted with the cancel flag set, after a successful
\* connect, is the Canceled one (success = false, message 'Upload canceled'), whatever
\* the tasks' results and in both dispatch modes; and the cancel flag, once set, stays
\* set during the session.
C3_CancelWins ==
    /\ [][(should_cancel /\ connect_result = "ok" /\ ~Emitted /\ Emitted') =>
              (~Event'.success /\ Event'.message = <<"Upload canceled">>)]_vars
    /\ [][should_cancel => should_cancel']_vars
\* A session cancelled after a task succeeded and none failed has emitted Canceled.
C3_Witness ==
    /\ Emitted /\ should_cancel /\ connect_result = "ok"
    /\ Event.message = <<"Upload canceled">>
    /\ Event.successful >= 1 /\ Event.failed = 0

\* ---- C4
\* With the cancel flag set, a thread at one of its checks (the head of the sequential
\* loop, the head of an attempt) leaves it without an upload_file call to come.
C4_NoStartAfterCancel ==
    /\ (should_cancel /\ pc = "seq_loop") => pc' \in {"seq_loop", "done"}
    /\ (should_cancel /\ pc = "seq_file") => pc' \in {"seq_file", "seq_loop"}
    /\ \A w \in 1 .. MaxThreadsBound :
          (should_cancel /\ workers[w].pc \in {"idle", "attempt"}) =>
              workers'[w].pc \in {"idle", "attempt", "count"}
\* C4: an upload_file call begins only after the thread read the cancel flag as false
\* since its previous call, so after cancel() at most one further upload_file call
\* begins in each thread (the session thread in sequential dispatch, each pool thread
\* in pool dispatch), and no task whose check was still to come is started.
C4_OneCallAfterCancel ==
    /\ [](/\ \A t \in Threads : calls_after_cancel[t] <= 1
          /\ ~should_cancel => \A t \in Threads : calls_after_cancel[t] = 0)
    /\ [][C4_NoStartAfterCancel]_vars
\* Both pool threads were past their check when cancel() came, and each began one call.
C4_Witness ==
    /\ should_cancel
    /\ calls_after_cancel[1] = 1 /\ calls_after_cancel[2] = 1
    /\ \E w \in Pool : workers[w].pc = "count" /\ workers[w].calls = 1

\* ---- C5
\* C5: if the session-start connect() returns non-ok, the session emits the completion
\* event (false, connect message, 0, 0) and nothing else happens: no file collection,
\* no total_bytes computation, no upload_file call.
C5_FailedConnect ==
    connect_result = "failed" =>
        /\ all_completed = <<[success |-> FALSE, message |-> ConnectMessage,
                              successful |-> 0, failed |-> 0]>>
        /\ ~collected /\ scanned = {} /\ total_bytes = 0 /\ uploaded_bytes = 0
        /\ AllCalls = {0}
        /\ \A i \in Tasks : file_completed[i] = <<>> /\ futures[i] = "unsubmitted"
        /\ pc = "done"
\* The connect of a session with files to upload has failed.
C5_Witness ==
    connect_result = "failed" /\ Emitted /\ Len(files) = MaxTasks

\* ---- C6
\* C6: the event emitted after the dispatch is decided by the cancel flag and the
\* failure count alone: Canceled if the flag is set, else Completed (success = true) if
\* failed = 0, else PartialFailure (success = false); it carries the succeeded and
\* failed counts the dispatch has accumulated.
C6_Outcome ==
    [][(connect_result = "ok" /\ ~Emitted /\ Emitted') =>
          LET e == Event' IN
          /\ e.successful = successful_uploads /\ e.failed = failed_uploads
          /\ IF should_cancel
             THEN ~e.success /\ e.message = <<"Upload canceled">>
             ELSE IF failed_uploads = 0
             THEN e.success /\ e.message = <<"All", Len(files), "files uploaded successfully">>
             ELSE ~e.success /\ e.message = <<"Upload completed with", failed_uploads, "errors">>]_vars
\* A session without cancellation has ended PartialFailure, one task failed, one succeeded.
C6_Witness ==
    /\ Emitted /\ ~should_cancel /\ connect_result = "ok"
    /\ ~Event.success /\ Event.failed = 1 /\ Event.successful >= 1
    /\ Event.message = <<"Upload completed with", 1, "errors">>

\* ---- C7
\* A sequential session has finished with no cancellation, every task ended in
\* success, and every read of the local files found them (present, sizes unchanged).
C7_AllSucceeded ==
    /\ max_threads = 1 /\ pc = "done" /\ connect_result = "ok" /\ ~should_cancel
    /\ fs_stable
    /\ \A i \in Tasks : tally[i] = "succeeded"
C7_Totals ==
    /\ Emitted /\ Event.success
    /\ Event.successful = Len(files) /\ Event.failed = 0
    /\ successful_uploads = Len(files) /\ failed_uploads = 0
    /\ uploaded_bytes = total_bytes /\ total_bytes = SumSizes(Tasks)
    /\ files = <<100, 200, 300>> => Event.successful = 3 /\ uploaded_bytes = 600
\* The last aggregate-progress event reports percent = 100.
C7_LastPercent100 ==
    /\ overall_progress # <<>>
    /\ overall_progress[1].percent.num = 100 * overall_progress[1].percent.den
C8_FailureDoesNotStop ==
    (max_threads = 1 /\ pc = "done" /\ connect_result = "ok" /\ ~should_cancel) =>
        /\ \A i \in Tasks : Len(file_completed[i]) = 1 /\ tally[i] # "none"
        /\ \A i \in Tasks : tally[i] = "failed" <=> i \in exhausted
        /\ Emitted
        /\ Event.failed = Cardinality(exhausted)
        /\ Event.successful = Len(files) - Cardinality(exhausted)
        /\ exhausted # {} =>
              ~Event.success
              /\ Event.message = <<"Upload completed with", Cardinality(exhausted), "errors">>
\* Scenario B: the second of three files failed 3 times, the session went on.
C8_Witness ==
    /\ max_threads = 1 /\ pc = "done" /\ ~should_cancel
    /\ files = <<100, 200, 300>> /\ max_retries = 2 /\ exhausted = {2}
    /\ Event.successful = 2 /\ Event.failed = 1 /\ ~Event.success
    /\ tally[3] = "succeeded"

\* ---- C9
\* C9: once total_bytes has been computed, uploaded_bytes <= total_bytes in every
\* state, also when a collected file was missing (or its size unreadable) when
\* total_bytes was summed and is uploaded successfully later.
C9_UploadedWithinTotal ==
    collected => uploaded_bytes <= total_bytes

\* ---- C10
\* C10: uploaded_bytes never decreases: every step leaves it unchanged or increases
\* it, in both dispatch modes and across retries, failures and cancellation.
C10_Monotone ==
    [][uploaded_bytes' >= uploaded_bytes]_vars
\* A pool session, cancelled, in which one task failed and two tasks' bytes were added.
C10_Witness ==
    /\ max_threads > 1 /\ should_cancel
    /\ uploaded_bytes = 400
    /\ \E i \in Tasks : tally[i] = "failed"

\* ---- C11
\* C11: every adapter whose connect() was invoked (the session's, and the one each pool
\* worker creates) has disconnect() invoked on it exactly once, on every exit path:
\* never twice, and once by the time the session thread, or the worker invocation
\* that created it, has returned (normally, cancelled, or after a failed connect).
C11_DisconnectOnce ==
    /\ \A a \in Adapters : disconnect_calls[a] <= 1
    /\ (pc = "done" /\ connect_calls[0] >= 1) => disconnect_calls[0] = 1
    /\ \A i \in Tasks :
          (futures[i] = "finished" /\ connect_calls[i] >= 1) => disconnect_calls[i] = 1

\* ---- C12
\* C12: with max_threads = 1 the per-file completion events are emitted in the order
\* of the task list: at every moment the tasks that have their (single) completion
\* event are exactly those before the current one, so when a upload_file call of task
\* j is about to begin or is in flight every task i < j has its event and no task
\* after j has one.
C12_SequentialOrder ==
    (max_threads = 1 /\ collected) =>
        /\ idx \in 1 .. Len(files) + 1
        /\ \A i \in Tasks : Len(file_completed[i]) = IF i < idx THEN 1 ELSE 0
        /\ pc \in {"seq_file", "seq_ready", "seq_uploading"} => idx \in Tasks
        /\ calls > 0 => idx > 1 \/ pc \in {"seq_file", "seq_ready", "seq_uploading"}
\* The third task's upload_file call is in flight; the first, failed, and the second
\* have their events.
C12_Witness ==
    /\ max_threads = 1 /\ pc = "seq_uploading" /\ idx = 3
    /\ file_completed[1] = <<FALSE>> /\ file_completed[2] = <<TRUE>>
    /\ file_completed[3] = <<>>

\* ---- C13
\* C13: with max_threads > 1 and no cancellation every collected task is submitted to
\* the pool exactly once and executed by exactly one worker invocation: none is
\* dropped, none is executed twice, and no two pool threads hold the same task at
\* the same time.
C13_ExactlyOnce ==
    max_threads > 1 =>
        /\ \A i \in Tasks : submitted[i] = (IF collected THEN 1 ELSE 0)
        /\ \A i \in Tasks : runs[i] <= 1 /\ (runs[i] = 1 <=> futures[i] \in {"running", "finished"})
        /\ \A v, w \in 1 .. MaxThreadsBound :
              (v # w /\ workers[v].cur # 0) => workers[v].cur # workers[w].cur
        /\ \A w \in 1 .. MaxThreadsBound :
              workers[w].cur # 0 => futures[workers[w].cur] = "running"
        /\ (pc = "done" /\ connect_result = "ok" /\ ~should_cancel) =>
              \A i \in Tasks : runs[i] = 1 /\ futures[i] = "finished" /\ i \in yielded
\* A pool session of three tasks has ended without cancellation, every task run once.
C13_Witness ==
    /\ max_threads > 1 /\ pc = "done" /\ ~should_cancel /\ Len(files) = 3
    /\ \A i \in Tasks : runs[i] = 1 /\ tally[i] # "none"

\* ---- C14
\* C14 as stated: once computed, total_bytes is the sum of the sizes of the collected
\* tasks whose local file exists at that moment.
C14_Original ==
    collected => total_bytes = SumSizes(scanned)
\* C14 amended: total_bytes is assigned once per session, after a successful connect
\* and before the first task is dispatched, and not modified afterwards; it is the sum
\* of the sizes of the collected tasks whose local file exists at that moment (missing
\* files contribute 0), or 0 when reading a size raises OSError.
C14_Amended ==
    /\ [](IF collected
          THEN /\ connect_result = "ok"
               /\ total_bytes = IF size_error THEN 0 ELSE SumSizes(scanned)
          ELSE /\ total_bytes = 0
               /\ AllCalls = {0}
               /\ \A i \in Tasks : futures[i] = "unsubmitted" /\ runs[i] = 0)
    /\ [][total_bytes' # total_bytes => ~collected /\ collected']_vars
    /\ [][collected => collected' /\ scanned' = scanned /\ size_error' = size_error]_vars
\* The second of three files was missing when total_bytes was summed; the session ran
\* to its end with total_bytes = 100 + 300.
C14_Witness ==
    /\ pc = "done" /\ collected /\ ~size_error
    /\ files = <<100, 200, 300>> /\ scanned = {1, 3} /\ total_bytes = 400
    /\ tally[1] # "none"

\* ---- C15
\* The configured patterns that are valid: non-blank once stripped, and compiling.
ValidPatterns ==
    {q \in {Strip(ignore_patterns[k]) : k \in DOMAIN ignore_patterns} : q # "" /\ Compiles(q)}
PatternMatches(name) == \E q \in ValidPatterns : Search(q, name)
\* The files of the selection that collect_files can see: a root that is a file, and
\* the files below a root that is a directory; each with the names of the directories
\* from the root down to it.
Candidates ==
    {[root |-> k, local |-> selection[k].path, dirs |-> {}] :
        k \in {j \in DOMAIN selection : selection[j].kind = "file"}}
    \cup UNION {
        {[root |-> k, local |-> OsJoin(selection[k].path, selection[k].entries[j]),
          dirs |-> {Basename(selection[k].path)}
                   \cup {selection[k].entries[j][n] :
                            n \in 1 .. Len(selection[k].entries[j]) - 1}] :
            j \in DOMAIN selection[k].entries} :
        k \in {j \in DOMAIN selection : selection[j].kind = "dir"}}
IsCollected(c) ==
    \E k \in DOMAIN all_files : all_files[k].root = c.root /\ all_files[k].local = c.local
\* No collected work item has a file name that a valid pattern matches, nor, with
\* hidden-file inclusion disabled, a name starting with '.'.
C15_NoneIgnored ==
    \A k \in DOMAIN all_files :
        /\ ~PatternMatches(Basename(all_files[k].local))
        /\ ~include_hidden_files => Basename(all_files[k].local) \notin HiddenNames
\* C15 as stated: C15_NoneIgnored, and with hidden-file inclusion enabled a hidden file
\* is collected unless an ignore pattern matches it.
C15_Original ==
    /\ C15_NoneIgnored
    /\ (cpc = "returned" /\ include_hidden_files) =>
          \A c \in Candidates :
              (Basename(c.local) \in HiddenNames /\ ~PatternMatches(Basename(c.local)))
                  => IsCollected(c)
\* C15 amended: C15_NoneIgnored, and with hidden-file inclusion enabled a hidden file is
\* collected unless an ignore pattern matches its name or the name of a directory
\* between the selected root (included) and the file.
C15_Amended ==
    /\ C15_NoneIgnored
    /\ (cpc = "returned" /\ include_hidden_files) =>
          \A c \in Candidates :
              (/\ Basename(c.local) \in HiddenNames
               /\ ~PatternMatches(Basename(c.local))
               /\ \A d \in c.dirs : ~PatternMatches(d))
                  => IsCollected(c)
\* With hidden files included and the patterns ' build ' and '[', root/sub/.env is
\* collected, root/build/.env and root/rebuild.sh are not.
C15_Witness ==
    /\ cpc = "returned" /\ include_hidden_files /\ ignore_patterns = <<" build ", "[">>
    /\ \E k \in DOMAIN all_files : all_files[k].local = <<"root", "sub", ".env">>
    /\ \A k \in DOMAIN all_files :
          all_files[k].local \notin {<<"root", "build", ".env">>, <<"root", "rebuild.sh">>}
    /\ log = << <<"warning", "[">> >>

\* ---- C16
\* C16: the file root/sub/file.txt under the selected directory 'root' gets the remote
\* path 'sub/file.txt' in contents-only mode and 'root/sub/file.txt' in preserve mode,
\* joined with forward slashes to the remote base directory: exactly these two with
\* an empty base, and below 'uploads/' with the base 'uploads' or 'uploads/'.
C16_RemotePath ==
    cpc = "returned" =>
        \A k \in DOMAIN selection :
            (selection[k].kind = "dir" /\ selection[k].path = <<"root">>) =>
                \E n \in DOMAIN all_files :
                    /\ all_files[n].root = k
                    /\ all_files[n].local = <<"root", "sub", "file.txt">>
                    /\ all_files[n].remote =
                          (IF remote_dir = <<>> THEN <<>> ELSE <<"uploads">>)
                          \o (IF upload_directory_contents_only
                              THEN <<"sub", "file.txt">>
                              ELSE <<"root", "sub", "file.txt">>)
\* Contents-only mode with an empty remote base: the remote path is 'sub/file.txt'.
C16_Witness ==
    /\ cpc = "returned" /\ upload_directory_contents_only /\ remote_dir = <<>>
    /\ \E n \in DOMAIN all_files :
          /\ all_files[n].local = <<"root", "sub", "file.txt">>
          /\ all_files[n].remote = <<"sub", "file.txt">>

\* ---- C17
\* The work items collect_files has appended for the k-th root.
ItemsOf(k) ==
    LET FromRoot(it) == it.root = k IN SelectSeq(all_files, FromRoot)
\* C17: a root whose access raises is skipped with one error log line, and every other
\* root of the selection, before or after it, is collected in full: collection
\* reaches the end of the selection whatever roots raise.
C17_ErrorRootSkipped ==
    cpc = "returned" =>
        /\ root_idx = Len(selection) + 1
        /\ \A k \in DOMAIN selection :
              LET r == selection[k] IN
              IF r.kind = "error"
              THEN /\ ItemsOf(k) = <<>>
                   /\ Cardinality({j \in DOMAIN log : log[j] = <<"error", k>>}) = 1
              ELSE /\ <<"error", k>> \notin {log[j] : j \in DOMAIN log}
                   /\ ItemsOf(k) =
                         IF r.kind = "dir" /\ ~ShouldIgnore(Basename(r.path))
                         THEN WalkItems(r, k)
                         ELSE IF r.kind = "file" /\ ~ShouldIgnore(Basename(r.path))
                         THEN <<[local |-> r.path, remote |-> <<Basename(r.path)>>,
                                 root |-> k]>>
                         ELSE <<>>
\* The first root raised and was logged; the directory after it was collected.
C17_Witness ==
    /\ cpc = "returned" /\ Len(selection) = 2
    /\ selection[1].kind = "error" /\ selection[2].kind = "dir"
    /\ log # <<>> /\ log[Len(log)] = <<"error", 1>>
    /\ ItemsOf(1) = <<>> /\ ItemsOf(2) # <<>>

\* ---- C18
\* The pool session has ended: the completion event is out and no worker is running.
C18_Settled ==
    /\ max_threads > 1 /\ pc = "done" /\ connect_result = "ok"
    /\ \A w \in 1 .. MaxThreadsBound : workers[w].pc = "idle"
C18_Isolated ==
    /\ \A i \in raised : tally[i] = "failed"
    /\ failed_uploads = Cardinality({i \in Tasks : tally[i] = "failed"})
    /\ successful_uploads = Cardinality({i \in Tasks : tally[i] = "succeeded"})
\* C18 as stated: in threaded mode an exception raised while a worker processes a task
\* causes exactly that task to be counted as failed, once.
C18_Original ==
    C18_Settled => C18_Isolated
\* C18 amended: in threaded mode with the session not cancelled, an exception raised
\* while a worker processes a task causes exactly that task to be counted as failed,
\* once, and every sibling task is still executed, and counted when its worker
\* connected.
C18_Amended ==
    (C18_Settled /\ ~should_cancel) =>
        /\ C18_Isolated
        /\ \A i \in Tasks : runs[i] = 1 /\ futures[i] = "finished"
        /\ \A i \in Tasks \ raised : disconnect_calls[i] = 1 => tally[i] # "none"
        /\ Emitted /\ Event.failed = failed_uploads /\ Event.failed >= Cardinality(raised)
\* The worker of the second of three tasks raised; the first task succeeded, the third
\* was counted, and the session reports the failure.
C18_Witness ==
    /\ C18_Settled /\ ~should_cancel /\ Len(files) = 3
    /\ raised = {2} /\ tally[2] = "failed" /\ tally[1] = "succeeded" /\ tally[3] # "none"
    /\ ~Event.success /\ Event.failed >= 1

IsCompleted(e) == e.success /\ e.failed = 0 /\ e.message[1] = "All"
IsPartialFailure(e) ==
    ~e.success /\ e.failed > 0 /\ e.message = <<"Upload completed with", e.failed, "errors">>
IsCanceled(e) == ~e.success /\ e.message = <<"Upload canceled">>
IsFailed(e) ==
    /\ ~e.success /\ e.successful = 0 /\ e.failed = 0
    /\ e.message \in {ConnectMessage, <<"Failed to create uploader">>}
\* C20: every session run emits exactly one session-completion event (none before it
\* ends, one when run() has returned, never a second or a changed one), carrying one
\* of the four terminal outcomes; upload_file is called only after a successful
\* connect, of the session and of the thread's own adapter.
C20_OneOutcome ==
    /\ [](/\ Len(all_completed) <= 1
          /\ pc = "done" <=> Emitted
          /\ Emitted =>
                Cardinality({o \in {"Completed", "PartialFailure", "Canceled", "Failed"} :
                    \/ o = "Completed" /\ IsCompleted(Event)
                    \/ o = "PartialFailure" /\ IsPartialFailure(Event)
                    \/ o = "Canceled" /\ IsCanceled(Event)
                    \/ o = "Failed" /\ IsFailed(Event)}) = 1
          /\ (\E n \in AllCalls : n > 0) => connect_result = "ok"
          /\ connect_result # "ok" => \A i \in Tasks : tally[i] = "none" /\ runs[i] = 0
          /\ \A w \in 1 .. MaxThreadsBound :
                workers[w].cur # 0 => connect_calls[workers[w].cur] = 1)
    /\ [][Emitted => all_completed' = all_completed]_vars
\* A pool session was cancelled and has emitted Canceled while a worker's call is still
\* in flight: no further outcome follows.
C20_Witness ==
    /\ pc = "done" /\ max_threads > 1 /\ should_cancel
    /\ Len(all_completed) = 1 /\ IsCanceled(Event)
    /\ \E w \in Pool : workers[w].pc = "uploading"

\* ---- C21
\* C21: when the session has completed with no cancellation, succeeded + failed equals
\* the number of collected tasks, in both dispatch modes: every task is in exactly one
\* of the two tallies, also a task whose worker could not create or connect its adapter.
C21_EveryTaskCounted ==
    (pc = "done" /\ connect_result = "ok" /\ ~should_cancel) =>
        /\ successful_uploads + failed_uploads = Len(files)
        /\ Event.successful + Event.failed = Len(files)
        /\ \A i \in Tasks : tally[i] \in {"succeeded", "failed"}

\* ---- C22
\* The worker invocations that have returned, by their result: upload_worker returns
\* True as its first value exactly when upload_single_file_threaded returned True,
\* which is when the task's completion event carries success.
ReturnedTrue == {i \in Tasks : futures[i] = "finished" /\ file_completed[i] = <<TRUE>>}
ReturnedFalse == {i \in Tasks : futures[i] = "finished" /\ file_completed[i] # <<TRUE>>}
\* C22: in threaded mode, whatever the interleaving of the workers, once every worker
\* has returned uploaded_bytes is the sum of the sizes of the tasks that succeeded and
\* the succeeded / failed counters are the numbers of workers that finished with each
\* result. (Each block under upload_lock is one step of the model.)
C22_NoLostUpdate ==
    (max_threads > 1 /\ pc = "done" /\ connect_result = "ok"
     /\ \A w \in 1 .. MaxThreadsBound : workers[w].pc = "idle") =>
        /\ uploaded_bytes = SumSizes(ReturnedTrue)
        /\ successful_uploads = Cardinality(ReturnedTrue)
        /\ failed_uploads = Cardinality(ReturnedFalse)

\* ---- C23
\* The worker adapters whose connect() returned ok: the worker went on to hold its task
\* (and to disconnect after it); a worker whose connect failed returned at once.
OpenedConnections ==
    {i \in Tasks : connect_calls[i] >= 1
                   /\ (disconnect_calls[i] >= 1
                       \/ \E w \in 1 .. MaxThreadsBound : workers[w].cur = i)}
\* C23: in threaded mode the pool's worker threads open at most max_threads connections
\* in a session (one for each thread's whole lifetime), however many tasks are
\* submitted.
C23_OneConnectionPerThread ==
    max_threads > 1 => Cardinality(OpenedConnections) <= max_threads

\* ---- C24
\* C24: no adapter has a backend call made on it by two different threads: a worker
\* invocation calls only the adapter it created itself (no call is made by a thread
\* other than the adapter's creator), an adapter is created for one invocation, held by
\* one pool thread at a time, and the session's adapter is connected and disconnected
\* once, by the session thread.
C24_ExclusiveAdapters ==
    /\ ~foreign_call
    /\ \A i \in Tasks : runs[i] <= 1 /\ connect_calls[i] <= runs[i]
    /\ \A v, w \in 1 .. MaxThreadsBound :
          (v # w /\ workers[v].cur # 0) => workers[v].cur # workers[w].cur
    /\ \A w \in 1 .. MaxThreadsBound :
          workers[w].calls > 0 => workers[w].cur \in Tasks /\ connect_calls[workers[w].cur] = 1
    /\ connect_calls[SessionAdapter] <= 1 /\ disconnect_calls[SessionAdapter] <= 1
    /\ calls > 0 => max_threads = 1 /\ connect_calls[SessionAdapter] = 1
\* Both pool threads have an upload_file call in flight, each on its own adapter, after
\* the adapter of an earlier task was disconnected.
C24_Witness ==
    /\ workers[1].pc = "uploading" /\ workers[2].pc = "uploading"
    /\ workers[1].cur # workers[2].cur
    /\ \E i \in Tasks : futures[i] = "finished" /\ disconnect_calls[i] = 1
    /\ ~foreign_call

\* ---- C25
\* With the cancel flag set, a worker that takes a task not yet started makes no
\* connect() call for it, and a worker at the first check of its task goes on to no
\* upload_file call.
C25_NoCallForNewTask ==
    /\ \A i \in Tasks :
          (should_cancel /\ futures[i] = "pending") => connect_calls'[i] = connect_calls[i]
    /\ \A w \in 1 .. MaxThreadsBound :
          (should_cancel /\ workers[w].pc = "attempt" /\ workers[w].calls = 0) =>
              workers'[w].pc # "ready"
\* C25: in threaded mode a worker consults the cancel flag before it starts a task:
\* once the flag is set, a worker that picks up a task that had not started makes no
\* backend call for it, neither connect nor upload_file.
C25_CancelBeforeStart ==
    [][C25_NoCallForNewTask]_vars

\* ---- C26
\* Pausing neither skips nor duplicates a task: the loop's index moves one task at a
\* time, pause() and resume() leave it where it is, the tasks with their one
\* completion event are those before it, and a session that ends without
\* cancellation has gone through the whole list.
C26_SameNextTask ==
    /\ [](max_threads = 1 /\ collected =>
            /\ \A i \in Tasks : Len(file_completed[i]) = IF i < idx THEN 1 ELSE 0
            /\ (pc = "done" /\ ~should_cancel) => idx = Len(files) + 1)
    /\ [][idx' \in {idx, idx + 1}]_vars
    /\ [][is_paused' # is_paused => idx' = idx /\ pc' = pc /\ calls' = calls]_vars
\* C26 as stated: in sequential mode no upload_file call for a new task begins while
\* the pause flag is set and the cancel flag is not; pausing neither skips nor
\* duplicates a task.
C26_Original ==
    /\ [][(max_threads = 1 /\ is_paused /\ ~should_cancel) =>
             ~(pc = "seq_ready" /\ pc' = "seq_uploading" /\ calls = 0)]_vars
    /\ C26_SameNextTask
\* C26 amended: in sequential mode, while the loop's pause check before a new task
\* reads the pause flag set and the cancel flag not set, the loop stays at that task
\* and begins no upload_file call (a task whose check passed before pause() still
\* begins its call); pausing neither skips nor duplicates a task.
C26_Amended ==
    /\ [][(pc = "seq_file" /\ attempt = 0 /\ is_paused /\ ~should_cancel) =>
             (pc' = "seq_file" /\ idx' = idx /\ calls' = calls /\ attempt' = attempt)]_vars
    /\ C26_SameNextTask
\* The loop is held at its pause check before the second task, the first one done.
C26_Witness ==
    /\ max_threads = 1 /\ is_paused /\ ~should_cancel
    /\ pc = "seq_file" /\ attempt = 0 /\ idx = 2 /\ calls = 0
    /\ tally[1] = "succeeded" /\ file_completed[2] = <<>>

\* ---- C27
\* C27: in both dispatch modes a task whose local file has disappeared between
\* collection and dispatch still has upload_file attempted for it (when no cancellation
\* keeps it from starting), ends counted as failed with a per-file completion event
\* carrying success = false, and does not keep the session from processing the others.
C27_VanishedFileAttempted ==
    /\ (pc = "seq_loop" /\ idx > 1 /\ (idx - 1) \in vanished /\ ~should_cancel) => calls >= 1
    /\ \A w \in 1 .. MaxThreadsBound :
          (workers[w].pc = "count" /\ workers[w].cur \in vanished /\ ~should_cancel) =>
              workers[w].calls >= 1
    /\ \A i \in vanished :
          tally[i] # "none" => tally[i] = "failed" /\ file_completed[i] = <<FALSE>>
    /\ (pc = "done" /\ connect_result = "ok" /\ ~should_cancel) =>
          \A i \in Tasks : IF max_threads > 1 THEN runs[i] = 1 ELSE Len(file_completed[i]) = 1

\* ---- C28
\* The tasks that have completed successfully so far.
Succeeded == {i \in Tasks : file_completed[i] = <<TRUE>>}
\* uploaded_bytes changes only in a step in which a task reaches its terminal success,
\* by that task's file size; so no progress callback changes it, and no task adds to
\* it twice (a task has at most one completion event).
C28_OnlyAtSuccess ==
    /\ [][uploaded_bytes' # uploaded_bytes =>
             \E i \in Tasks : /\ file_completed[i] = <<>> /\ file_completed'[i] = <<TRUE>>
                              /\ uploaded_bytes' = uploaded_bytes + files[i]]_vars
    /\ [](\A i \in Tasks : Len(file_completed[i]) <= 1)
\* C28 as stated: C28_OnlyAtSuccess, so at any time uploaded_bytes is the sum of the
\* sizes of the tasks that have completed successfully so far.
C28_Original ==
    /\ C28_OnlyAtSuccess
    /\ [](uploaded_bytes = SumSizes(Succeeded))
\* C28 amended: C28_OnlyAtSuccess, and uploaded_bytes is the sum of the sizes of the
\* tasks that have completed successfully so far, less those of the sequential
\* dispatch whose size could not be read at completion, which added nothing.
C28_Amended ==
    /\ C28_OnlyAtSuccess
    /\ [](/\ uploaded_bytes = SumSizes(Succeeded \ unsized)
          /\ unsized \subseteq Succeeded
          /\ max_threads > 1 => unsized = {})
\* The third task's call has reported progress beyond uploaded_bytes, which holds the
\* first task's 100 bytes: the second succeeded with its size unreadable.
C28_Witness ==
    /\ max_threads = 1 /\ pc = "seq_uploading" /\ idx = 3
    /\ Succeeded = {1, 2} /\ unsized = {2} /\ uploaded_bytes = 100
    /\ overall_progress # <<>> /\ overall_progress[1].uploaded = 250

\* ---- C29
\* The delays slept so far within one task, given the task's position: its current
\* attempt number while it runs (running), its upload_file calls, whether the last call
\* returned ok.
C29_Delays(d, running, att, ncalls, ok) ==
    /\ \A k \in DOMAIN d : d[k] = 2
    /\ Len(d) <= max_retries
    /\ running => Len(d) = att
    /\ ncalls >= 1 => Len(d) \in {ncalls - 1, ncalls}
    /\ (~running /\ ok) => Len(d) = ncalls - 1
    /\ ncalls = max_retries + 1 => Len(d) = max_retries
\* C29: within one task exactly one delay separates each failed attempt from the next
\* attempt (before its k-th upload_file call the task has slept k - 1 times), every
\* delay is the same 2 seconds whatever the attempt number, and no delay follows a
\* successful attempt or the last allowed attempt; in both dispatch modes.
C29_FixedDelay ==
    /\ collected /\ max_threads = 1 =>
          /\ C29_Delays(delays, pc \in {"seq_file", "seq_ready", "seq_uploading"},
                        attempt, calls, got_ok)
          /\ pc = "seq_uploading" => Len(delays) = calls - 1
    /\ \A w \in 1 .. MaxThreadsBound :
          /\ C29_Delays(workers[w].delays,
                        workers[w].pc \in {"attempt", "ready", "uploading"},
                        workers[w].attempt, workers[w].calls, workers[w].got_ok)
          /\ workers[w].pc = "uploading" => Len(workers[w].delays) = workers[w].calls - 1
\* A sequential task has succeeded at its third and last allowed attempt after two
\* delays of 2 seconds.
C29_Witness ==
    /\ max_threads = 1 /\ max_retries = 2 /\ pc = "seq_loop" /\ idx = 2
    /\ calls = 3 /\ got_ok /\ delays = <<2, 2>>

\* ---- C30
\* cancel() changes the session's cancel flag and nothing else: no adapter's own cancel
\* flag, no position of a thread (a call in flight stays in flight), no counter.
C30_CancelFrame ==
    /\ [][should_cancel' # should_cancel =>
             /\ should_cancel'
             /\ UNCHANGED <<config_vars, is_paused, total_bytes, uploaded_bytes, count_vars,
                            pc, seq_vars, pool_vars, all_completed, overall_progress,
                            file_completed, connect_result, collected, scanned, tally,
                            exhausted, calls_after_cancel, fs_stable, adapter_vars,
                            dispatch_vars, collect_vars, vanished, unsized, delays,
                            foreign_call, uploader_cancel>>]_vars
    /\ [](\A a \in Adapters : ~uploader_cancel[a])
\* A call in flight that returns ok with the cancel flag set is counted as succeeded,
\* and the completion event emitted with the flag set is the Canceled one.
C30_CountedAfterCancel ==
    /\ [][(should_cancel /\ pc = "seq_uploading" /\ file_completed'[idx] = <<TRUE>>) =>
             /\ successful_uploads' = successful_uploads + 1
             /\ failed_uploads' = failed_uploads
             /\ tally'[idx] = "succeeded"]_vars
    /\ [][\A w \in 1 .. MaxThreadsBound :
             /\ (should_cancel /\ workers[w].pc = "uploading"
                 /\ file_completed'[workers[w].cur] = <<TRUE>>) =>
                    workers'[w].pc = "count" /\ workers'[w].success
             /\ (should_cancel /\ workers[w].pc = "count" /\ workers[w].success
                 /\ workers'[w].pc = "idle") =>
                    /\ successful_uploads' = successful_uploads + 1
                    /\ failed_uploads' = failed_uploads]_vars
    /\ [][(should_cancel /\ connect_result = "ok" /\ ~Emitted /\ Emitted') =>
             IsCanceled(Event') /\ Event'.successful = successful_uploads]_vars
\* C30 as stated: the frame of cancel(); a call in flight that returns ok after
\* cancel() is counted as succeeded and its file size is added to uploaded_bytes, though
\* the outcome is Canceled.
C30_Original ==
    /\ C30_CancelFrame
    /\ C30_CountedAfterCancel
    /\ [][\A i \in Tasks :
             (should_cancel /\ file_completed[i] = <<>> /\ file_completed'[i] = <<TRUE>>) =>
                 uploaded_bytes' = uploaded_bytes + files[i]]_vars
\* C30 amended: the same, the file size being added unless, in the sequential mode,
\* reading it at completion raises OSError (then uploaded_bytes keeps its value).
C30_Amended ==
    /\ C30_CancelFrame
    /\ C30_CountedAfterCancel
    /\ [][\A i \in Tasks :
             (should_cancel /\ file_completed[i] = <<>> /\ file_completed'[i] = <<TRUE>>) =>
                 uploaded_bytes' = IF i \in unsized' THEN uploaded_bytes
                                   ELSE uploaded_bytes + files[i]]_vars
    /\ [](max_threads > 1 => unsized = {})
\* cancel() was called while the second task's upload_file call, begun before it, is in
\* flight: the call is still in flight and no adapter's flag is set.
C30_Witness ==
    /\ should_cancel /\ max_threads = 1 /\ pc = "seq_uploading" /\ idx = 2
    /\ calls_after_cancel[0] = 0 /\ successful_uploads = 1
    /\ \A a \in Adapters : ~uploader_cancel[a]

\* ---- C31
\* C31: with a positive bandwidth limit, whenever a throttle call has returned, the time
\* elapsed since the adapter's start timestamp is at least the bytes passed to the
\* throttle so far divided by the configured rate (compared without the division); with
\* the limit 0 the throttle has never slept and its byte counter is as constructed.
C31_Paced ==
    /\ bandwidth_limit > 0 =>
          (clock - last_byte_time) * BytesPerSecond >= charged
    /\ bandwidth_limit = 0 => slept = 0 /\ bytes_transferred = 0
\* The throttle has been charged with two blocks and has slept.
C31_Witness ==
    /\ adapter = "FTP"
    /\ bandwidth_limit > 0
    /\ chunks >= 2
    /\ charged >= 2 * (BlockSize \div 2)
    /\ slept > 0

\* ---- C32
\* C32: for every adapter class with a positive bandwidth limit, after each chunk or
\* progress step the throttle's cumulative byte counter equals the bytes sent so far on
\* the connection.
C32_CounterIsBytesSent ==
    bandwidth_limit > 0 => bytes_transferred = sent

\* ---- C33
\* The name is one _should_ignore rejects: a valid pattern matches it, or it is hidden
\* and hidden files are excluded.
C33_Rejected(name) ==
    PatternMatches(name) \/ (~include_hidden_files /\ name \in HiddenNames)
\* C33: no work item collected under a directory root lies below a sub-directory of
\* that root whose name a valid ignore pattern matches or, with hidden files excluded,
\* whose name starts with '.', whatever the file's own name.
C33_PrunedDirectories ==
    \A k \in DOMAIN all_files :
        selection[all_files[k].root].kind = "dir" =>
            LET rel == RelPath(all_files[k].local, selection[all_files[k].root].path)
            IN  \A j \in 1 .. Len(rel) - 1 : ~C33_Rejected(rel[j])
\* With the pattern 'build' and hidden files included, root/sub/.env is collected and
\* root/build/out.o, whose own name passes the filter, is not.
C33_Witness ==
    /\ cpc = "returned" /\ include_hidden_files /\ ignore_patterns = <<" build ", "[">>
    /\ ~C33_Rejected("out.o")
    /\ \E k \in DOMAIN all_files : all_files[k].local = <<"root", "sub", ".env">>
    /\ \E k \in DOMAIN selection :
          /\ selection[k].path = <<"root">>
          /\ \E j \in DOMAIN selection[k].entries :
                selection[k].entries[j] = <<"build", "out.o">>
    /\ \A k \in DOMAIN all_files : all_files[k].local # <<"root", "build", "out.o">>

\* ---- C34
\* The work items of the k-th root.
C34_ItemsOfRoot(k) == {n \in DOMAIN all_files : all_files[n].root = k}
\* C34: a root that is a file and passes the filter yields exactly one work item, whose
\* local path is the root and whose remote path is the file's base name alone, without
\* the remote base directory.
C34_FileRootBasename ==
    cpc = "returned" =>
        \A k \in DOMAIN selection :
            (selection[k].kind = "file" /\ ~C33_Rejected(Basename(selection[k].path))) =>
                /\ Cardinality(C34_ItemsOfRoot(k)) = 1
                /\ \A n \in C34_ItemsOfRoot(k) :
                      /\ all_files[n].local = selection[k].path
                      /\ all_files[n].remote = <<Basename(selection[k].path)>>
\* The file home/file.txt selected with the remote base 'uploads' is collected as
\* 'file.txt', while a file under a directory root is collected below 'uploads'.
C34_Witness ==
    /\ cpc = "returned" /\ remote_dir = <<"uploads">>
    /\ \E n \in DOMAIN all_files :
          /\ all_files[n].local = <<"home", "file.txt">>
          /\ all_files[n].remote = <<"file.txt">>
    /\ \E n \in DOMAIN all_files :
          /\ selection[all_files[n].root].kind = "dir"
          /\ all_files[n].remote[1] = "uploads"

\* ---- C35
\* The last n elements of a sequence.
C35_Last(q, n) == IF Len(q) <= n THEN q ELSE SubSeq(q, Len(q) - n + 1, Len(q))
\* C35: the speed history never holds more than 10 samples; it holds the most recent
\* samples in the order they arrived (the oldest leaves first); and the displayed
\* average is the arithmetic mean of exactly the samples held.
C35_RingBuffer ==
    /\ Len(speed_history) <= 10
    /\ speed_history = C35_Last(samples, 10)
    /\ samples # <<>> =>
          avg_speed.sum * Len(speed_history) = SeqSum(speed_history) * avg_speed.count
\* An eleventh sample has arrived: the first one, the only non-zero one, is gone and the
\* average is 0.
C35_Witness ==
    /\ Len(samples) = 11
    /\ samples[1] = 1500
    /\ Len(speed_history) = 10
    /\ avg_speed.sum = 0

\* ---- C36
\* C36: the session-completion event is the last event of a session. Once it has been
\* emitted no upload_file call is in flight in any worker, and no step emits a per-file
\* completion event or changes uploaded_bytes or the success and failure counts.
C36_CompletionIsLast ==
    /\ [](Emitted => \A w \in 1 .. MaxThreadsBound : workers[w].pc # "uploading")
    /\ [][Emitted => UNCHANGED <<file_completed, uploaded_bytes, successful_uploads,
                                 failed_uploads>>]_vars

\* ---- C37
\* C37: a task is counted as failed, and gets a per-file completion event with
\* success = false, only if upload_file was called for it at least once and no call
\* returned ok. Sequential dispatch: the task that has just ended (idx - 1); pool
\* dispatch: the task whose worker adds to failed_uploads.
C37_FailedOnlyAfterAttempt ==
    /\ []((pc \in {"seq_loop", "done"} /\ idx > 1) =>
            /\ tally[idx - 1] = "failed" => calls >= 1 /\ ~got_ok
            /\ file_completed[idx - 1] = <<FALSE>> => calls >= 1 /\ ~got_ok)
    /\ [][\A w \in 1 .. MaxThreadsBound :
            /\ (workers[w].pc = "count" /\ failed_uploads' = failed_uploads + 1
                    /\ workers'[w].pc = "idle")
                  => workers[w].calls >= 1 /\ ~workers[w].got_ok
            /\ (workers[w].cur # 0 /\ workers'[w].cur = workers[w].cur
                    /\ file_completed'[workers[w].cur]
                           = Append(file_completed[workers[w].cur], FALSE))
                  => workers[w].calls >= 1 /\ ~workers[w].got_ok]_vars

\* ---- C38
\* C38: every task counted in the succeeded or the failed tally has exactly one per-file
\* completion event, whose success flag is the tally it was counted in, in both
\* dispatch modes.
C38_OneEventPerCountedTask ==
    \A i \in Tasks :
        /\ tally[i] = "succeeded" => file_completed[i] = <<TRUE>>
        /\ tally[i] = "failed" => file_completed[i] = <<FALSE>>

\* ---- C39
\* C39: in the pool dispatch with no retries (each file's percentages never decrease:
\* one upload_file call a file, reporting the same percentage each time) the
\* uploaded-bytes value of each aggregate-progress event is at least that of the event
\* before it, whatever the interleaving of the workers' callbacks and completions.
C39_AggregateNeverDecreases ==
    [][(max_threads > 1 /\ max_retries = 0 /\ overall_progress # <<>>
            /\ overall_progress' # <<>>)
          => overall_progress'[1].uploaded >= overall_progress[1].uploaded]_vars

\* ---- C40
\* The sessions whose progress is checked: at most MaxLiveTasks tasks.
MaxLiveTasks == 2
InitLive == Init /\ Len(files) <= MaxLiveTasks
\* The steps of the session thread and of the pool threads are taken when they stay
\* possible: the threads run, every backend call returns (SeqReturn, ThrReturn), and a
\* sleep ends. The step that leaves the pause wait of lines 261-262 is strongly fair:
\* the loop reads the flags every 0.1 s, so it sees a time without pause that lasts
\* longer than that. cancel(), pause(), resume() and the progress callbacks may or may
\* not happen.
Fairness ==
    /\ WF_vars(RunStart) /\ WF_vars(CollectAndDispatch)
    /\ WF_vars(SeqLoop) /\ SF_vars(SeqAttempt) /\ WF_vars(SeqBegin) /\ WF_vars(SeqReturn)
    /\ WF_vars(MainAsCompleted) /\ WF_vars(MainEmit)
    /\ \A w \in 1 .. MaxThreadsBound :
          /\ WF_vars(WorkerStart(w)) /\ WF_vars(ThrAttempt(w)) /\ WF_vars(ThrBegin(w))
          /\ WF_vars(ThrReturn(w)) /\ WF_vars(WorkerCount(w))
SpecLive == InitLive /\ [][Next]_vars /\ Fairness
============================================================================
